---------------------------- MODULE Spec2Model ----------------------------
(***************************************************************************)
(* BiggerTask: a mouse/keyboard macro recorder and player for X11.         *)
(*                                                                         *)
(* The model follows the hotkey build (src/unnamed/part_001): a MainWindow *)
(* (the controller, one GUI thread), at most one RecorderThread and one    *)
(* PlayerThread object at a time, and the signals the workers queue to the *)
(* GUI thread.  Worker threads are modelled statement group by statement   *)
(* group: every read or write of the shared atomic flag `running` is its   *)
(* own step, thread-local work between two such accesses is one step.      *)
(*                                                                         *)
(* Time is the monotonic clock of now_ms(), observed every IdleSleepMs.    *)
(* A worker never keeps an absolute instant: the recorder only uses        *)
(* now_ms() - start, the player only compares start + offset with now_ms() *)
(* and sleeps for the difference, so the model keeps the elapsed times     *)
(* (r_elapsed, p_elapsed) and the remaining sleep (p_sleep) instead of the *)
(* absolute clock.                                                         *)
(***************************************************************************)
EXTENDS Integers, Sequences, FiniteSets, TLC

\* ------------------------------------------------------------------ bounds
\* Longest event log drawn as an input (a loaded file, a log to play).
MaxLen == 2
\* Most raw input notifications one capture processes.
MaxRaw == 3
\* Largest finite loop count drawn from the loop spin box (1..999 in the code).
MaxLoops == 2
\* Most raw input notifications a capture processes when the controller is
\* explored together with both workers.
CtlMaxRaw == 1

\* --------------------------------------------------------- program constants
IdleSleepMs == 10
TapDelayMs == 15
AutoReleaseDelayMs == 30
SafetyFirstButton == 1
SafetyLastButton == 7
INT_MAX == 2147483647

\* The clock is observed at the granularity of the idle sleep.
TickMs == IdleSleepMs

Min(a, b) == IF a < b THEN a ELSE b
Max(a, b) == IF a > b THEN a ELSE b

\* ------------------------------------------------------------ input domains
\* Button ids as X11 delivers them: 1 is the left button, 8 a side button
\* (outside the range 1..7 of the player's safety release).
Buttons == {1, 8}
Keycodes == {38}
\* Timestamps (ms) of the events of an input log.
LogTimes == {0, 20}
\* Pointer positions XQueryPointer can answer.
Points == {<<0, 0>>, <<3, 1>>}

\* Monitor layouts: each a list of connected outputs in enumeration order.
Monitor(n, x, y, w, h) == [name |-> n, x |-> x, y |-> y, width |-> w, height |-> h]
NoMonitor == Monitor("", 0, 0, 0, 0)
Layouts == << << Monitor("A", 0, 0, 2, 2), Monitor("B", 2, 0, 2, 2) >>,
              << Monitor("B", 0, 0, 2, 2) >> >>

VARIABLES
    \* MainWindow (the controller)
    activeRecorder, activePlayer, recorded, status,
    btnRecordText, btnRecordEnabled, btnPlayText, btnPlayEnabled, btnSaveEnabled,
    liveRecorders, livePlayers,
    \* RecorderThread
    rpc, r_running, r_events, downButtons, last_xy, r_elapsed, r_chan,
    \* what the recorder was given and asked (observation only)
    r_raw, r_stopReq, r_stop,
    \* PlayerThread
    ppc, p_running, p_events, speed, loops, k, i, p_elapsed, p_sleep, p_chan,
    \* what the player injected and was asked (observation only)
    \* (dispatched counts the log events handed to the backend, for finite loops)
    p_trace, pressedDown, p_stopReq, p_stopInWait, sinceStop, playIgnored, dispatched,
    \* the display
    layout,
    \* GlobalKeyWatcher, its queued notifications, the saved combos and the
    \* slot invocations the controller queued (k_raw: the raw key notifications)
    kpc, downSet, k_chan, config, posted, k_raw,
    \* the macro file at the chosen path, Config::lastDir, the configuration
    \* file (cfgWriteFailed: the last saveConfig() could not open it)
    disk, lastDir, cfgFile, cfgWriteFailed,
    \* openCaptureDialog() and its CaptureWorker (d_notes: the key presses
    \* notified since the dialog opened; sinceAccept: the time since the last
    \* accepted keycode, -1 when none was accepted; d_count: the key presses
    \* notified to all dialogs so far)
    dlgpc, dlgTarget, dlgResult, seq, comboTimer, cwpc, cw_running, cw_chan,
    d_notes, sinceAccept, d_count,
    \* the Ctrl-stop controller of BiggerTask.cpp: its StopWatcher thread and
    \* where the GUI thread is (idle, or blocked in stopWatcher->wait())
    swpc, sw_running, gui

ctlVars == <<activeRecorder, activePlayer, recorded, status,
             btnRecordText, btnRecordEnabled, btnPlayText, btnPlayEnabled,
             btnSaveEnabled, liveRecorders, livePlayers>>
recVars == <<rpc, r_running, r_events, downButtons, last_xy, r_elapsed, r_chan>>
recObs == <<r_raw, r_stopReq, r_stop>>
playVars == <<ppc, p_running, p_events, speed, loops, k, i, p_elapsed, p_sleep, p_chan>>
playObs == <<p_trace, pressedDown, p_stopReq, p_stopInWait, sinceStop, playIgnored,
             dispatched>>
envVars == <<layout>>
stopVars == <<swpc, sw_running, gui>>
keyVars == <<kpc, downSet, k_chan, config, posted, k_raw>>
fileVars == <<disk, lastDir, cfgFile, cfgWriteFailed>>
dlgVars == <<dlgpc, dlgTarget, dlgResult, seq, comboTimer, cwpc, cw_running, cw_chan,
             d_notes, sinceAccept, d_count>>
vars == <<ctlVars, recVars, recObs, playVars, playObs, envVars, keyVars, fileVars,
          dlgVars, stopVars>>

\* ------------------------------------------------------------- event model
Event(ty, t, x, y, b, pr, kc, mon, rx, ry) ==
    [type |-> ty, ms_since_start |-> t, x |-> x, y |-> y, button |-> b,
     pressed |-> pr, keycode |-> kc, monitor |-> mon, relx |-> rx, rely |-> ry]

\* ---------------------------------------------------------- monitor helpers
\* The first output of the enumeration among those at the indices hits, or
\* the empty result.
FirstHit(outs, hits) ==
    IF hits = {} THEN NoMonitor
    ELSE outs[CHOOSE n \in hits : \A m \in hits : n <= m]

findMonitorForPoint(lay, x, y) ==
    LET outs == Layouts[lay]
        inside(m) == x >= m.x /\ x < m.x + m.width /\ y >= m.y /\ y < m.y + m.height
    IN  FirstHit(outs, {n \in 1..Len(outs) : inside(outs[n])})

findMonitorByName(lay, name) ==
    LET outs == Layouts[lay]
    IN  FirstHit(outs, {n \in 1..Len(outs) : outs[n].name = name})

\* A mouse event as the recorder builds it at position pos and time t.
MouseMoveAt(lay, t, pos) ==
    LET mi == findMonitorForPoint(lay, pos[1], pos[2])
    IN  Event("MouseMove", t, pos[1], pos[2], 0, FALSE, 0, mi.name,
              pos[1] - mi.x, pos[2] - mi.y)

MouseButtonAt(lay, t, pos, b, isPress) ==
    LET mi == findMonitorForPoint(lay, pos[1], pos[2])
    IN  Event("MouseButton", t, pos[1], pos[2], b, isPress, 0, mi.name,
              pos[1] - mi.x, pos[2] - mi.y)

KeyAt(t, code, isPress) == Event("Key", t, 0, 0, 0, isPress, code, "", 0, 0)

\* -------------------------------------------------------------- macro files
\* A JSON number is kept as twice its value, so that halves exist: 3 is 1.5.
JsonNumber(n) == 2 * n

\* (std::int64_t)value.toDouble(): truncation toward zero.
ToInt64(h) == IF h >= 0 THEN h \div 2 ELSE -((-h) \div 2)

\* QJsonValue::toInt(): the number if it is whole, else the default 0.
ToInt(h) == IF h % 2 = 0 THEN h \div 2 ELSE 0

\* (The casts between unsigned int keycode and int keep the 32 bits, so a
\* keycode is written and read back as the same number.)

\* o.value(key) of a JSON object, with the default of the conversion used
\* when the key is absent.
JsonValue(o, key, default) == IF key \in DOMAIN o THEN o[key] ELSE default

\* saveRecq(): the record written for one event, without the button id.
RecordOfEventNoButton(e) ==
    IF e.type = "MouseMove"
    THEN [t |-> JsonNumber(e.ms_since_start), type |-> "mm",
          x |-> JsonNumber(e.x), y |-> JsonNumber(e.y)]
    ELSE IF e.type = "MouseButton"
    THEN [t |-> JsonNumber(e.ms_since_start), type |-> "mb",
          x |-> JsonNumber(e.x), y |-> JsonNumber(e.y), down |-> e.pressed]
    ELSE [t |-> JsonNumber(e.ms_since_start), type |-> "key",
          code |-> JsonNumber(e.keycode), down |-> e.pressed]

\* saveRecq(): the record written for one event.
RecordOfEvent(e) ==
    IF e.type = "MouseMove"
    THEN [t |-> JsonNumber(e.ms_since_start), type |-> "mm",
          x |-> JsonNumber(e.x), y |-> JsonNumber(e.y)]
    ELSE IF e.type = "MouseButton"
    THEN [t |-> JsonNumber(e.ms_since_start), type |-> "mb",
          x |-> JsonNumber(e.x), y |-> JsonNumber(e.y),
          btn |-> JsonNumber(e.button), down |-> e.pressed]
    ELSE [t |-> JsonNumber(e.ms_since_start), type |-> "key",
          code |-> JsonNumber(e.keycode), down |-> e.pressed]

\* A macro file: absent or unreadable, not JSON (or neither object nor
\* array), an object with a format marker and an events array, or a bare
\* array of records.
NoFile == [kind |-> "none", format |-> "", events |-> <<>>]
WrappedFile(fmt, recs) == [kind |-> "object", format |-> fmt, events |-> recs]
BareFile(recs) == [kind |-> "array", format |-> "", events |-> recs]

\* saveRecq(): root["format"] = "recq-v1"; root["events"] = arr.
saveRecq(evs) == WrappedFile("recq-v1", [n \in 1..Len(evs) |-> RecordOfEvent(evs[n])])

\* loadRecq(), object branch: Event e{} (a MouseMove with every field zero),
\* t, then the fields of the record's type; the event is appended whatever
\* the type.
EventOfRecord(o) ==
    LET t == ToInt64(JsonValue(o, "t", 0))
        type == JsonValue(o, "type", "")
        x == ToInt(JsonValue(o, "x", 0))
        y == ToInt(JsonValue(o, "y", 0))
        pressed == JsonValue(o, "down", FALSE)
    IN  IF type = "mm" THEN Event("MouseMove", t, x, y, 0, FALSE, 0, "", 0, 0)
        ELSE IF type = "mb"
        THEN Event("MouseButton", t, x, y, ToInt(JsonValue(o, "btn", 0)), pressed, 0, "", 0, 0)
        ELSE IF type = "key"
        THEN Event("Key", t, 0, 0, 0, pressed,
                   ToInt(JsonValue(o, "code", 0)), "", 0, 0)
        ELSE Event("MouseMove", t, 0, 0, 0, FALSE, 0, "", 0, 0)

\* A legacy branch that knows mouse records only.
LegacyEventOfRecordMouseOnly(o) ==
    LET t == ToInt64(JsonValue(o, "t", 0))
        type == JsonValue(o, "type", "")
        x == ToInt(JsonValue(o, "x", 0))
        y == ToInt(JsonValue(o, "y", 0))
    IN  IF type = "mm" THEN Event("MouseMove", t, x, y, 0, FALSE, 0, "", 0, 0)
        ELSE IF type = "mb"
        THEN Event("MouseButton", t, x, y, ToInt(JsonValue(o, "btn", 0)),
                   JsonValue(o, "down", FALSE), 0, "", 0, 0)
        ELSE Event("MouseMove", t, 0, 0, 0, FALSE, 0, "", 0, 0)

\* loadRecq(), array branch (legacy files): its own copy of the same steps.
LegacyEventOfRecord(o) ==
    LET t == ToInt64(JsonValue(o, "t", 0))
        type == JsonValue(o, "type", "")
    IN  IF type = "mm"
        THEN Event("MouseMove", t, ToInt(JsonValue(o, "x", 0)), ToInt(JsonValue(o, "y", 0)),
                   0, FALSE, 0, "", 0, 0)
        ELSE IF type = "mb"
        THEN Event("MouseButton", t, ToInt(JsonValue(o, "x", 0)), ToInt(JsonValue(o, "y", 0)),
                   ToInt(JsonValue(o, "btn", 0)), JsonValue(o, "down", FALSE), 0, "", 0, 0)
        ELSE IF type = "key"
        THEN Event("Key", t, 0, 0, 0, JsonValue(o, "down", FALSE),
                   ToInt(JsonValue(o, "code", 0)), "", 0, 0)
        ELSE Event("MouseMove", t, 0, 0, 0, FALSE, 0, "", 0, 0)

\* loadRecq(): the log a file yields; a file that cannot be opened or is
\* neither an object nor an array yields the empty log.
loadRecq(doc) ==
    IF doc.kind = "object"
    THEN [n \in 1..Len(doc.events) |-> EventOfRecord(doc.events[n])]
    ELSE IF doc.kind = "array"
    THEN [n \in 1..Len(doc.events) |-> LegacyEventOfRecord(doc.events[n])]
    ELSE <<>>

\* ------------------------------------------------------- configuration file
\* loadConfig()/saveConfig(): the document holds lastDir and, for each combo,
\* its keys as ints (the display names are presentation text and left out).
NoConfigFile == [kind |-> "none", lastDir |-> "", startRecording |-> <<>>,
                 startPlayback |-> <<>>, stopPlayback |-> <<>>]

IntsOfKeys(keys) == [n \in 1..Len(keys) |-> JsonNumber(keys[n])]
KeysOfInts(ints) == [n \in 1..Len(ints) |-> ToInt(ints[n])]

ConfigDocument(cfg, dir) ==
    [kind |-> "object", lastDir |-> dir,
     startRecording |-> IntsOfKeys(cfg.startRecording),
     startPlayback |-> IntsOfKeys(cfg.startPlayback),
     stopPlayback |-> IntsOfKeys(cfg.stopPlayback)]

\* Config{} after the constructor when no file exists.
DefaultConfig == [startRecording |-> <<>>, startPlayback |-> <<>>, stopPlayback |-> <<>>]

\* loadConfig(): the configuration and lastDir a configuration file yields.
LoadedConfig(doc) ==
    IF doc.kind = "none" THEN <<DefaultConfig, "home">>
    ELSE <<[startRecording |-> KeysOfInts(doc.startRecording),
            startPlayback |-> KeysOfInts(doc.startPlayback),
            stopPlayback |-> KeysOfInts(doc.stopPlayback)], doc.lastDir>>

\* saveConfig() of configuration cfg and directory dir: a full rewrite, or
\* nothing at all when the file cannot be opened for writing.
SaveConfig(cfg, dir, ok) ==
    /\ cfgFile' = IF ok THEN ConfigDocument(cfg, dir) ELSE cfgFile
    /\ cfgWriteFailed' = ~ok

\* No macro file at the path; the configuration file, when there is one, is
\* the one loadConfig() read the configuration from.
InitFiles(present) ==
    /\ disk = NoFile /\ lastDir = "home" /\ cfgWriteFailed = FALSE
    /\ cfgFile = IF present THEN ConfigDocument(config, "home") ELSE NoConfigFile

\* ------------------------------------------------------------------ signals
StatusSig(s) == [sig |-> "status", text |-> s]
FinishedRecordingSig(s) == [sig |-> "finishedRecording", text |-> s]

\* s.contains("finished", CaseInsensitive) || s.contains("Stopped", CaseInsensitive)
\* over the status texts the workers emit.
ContainsFinishedOrStopped(s) == s \in {"Playback finished.", "Stopped."}

\* All orders in which a set can be enumerated.
Orders(S) == {f \in [1..Cardinality(S) -> S] : \A a, b \in 1..Cardinality(S) : f[a] = f[b] => a = b}

NoStop == [set |-> FALSE, t |-> 0, pos |-> <<0, 0>>, held |-> {}, len |-> 0]

\* The recorder's elapsed time now_ms() - start is kept up to this value.
RecClockCap == TickMs

\* ------------------------------------------------------------ initial state
\* MainWindow's constructor and setupUi(): no worker, an empty log, Play and
\* Save disabled.
InitCtl ==
    /\ activeRecorder = "nullptr" /\ activePlayer = "nullptr"
    /\ recorded = <<>> /\ status = "Ready."
    /\ btnRecordText = "Record" /\ btnRecordEnabled = TRUE
    /\ btnPlayText = "Play" /\ btnPlayEnabled = FALSE /\ btnSaveEnabled = FALSE
    /\ liveRecorders = 0 /\ livePlayers = 0

InitRecorder ==
    /\ rpc = "none" /\ r_running = FALSE /\ r_events = <<>> /\ downButtons = {}
    /\ last_xy = <<-1, -1>> /\ r_elapsed = 0 /\ r_chan = <<>>
    /\ r_raw = <<>> /\ r_stopReq = FALSE /\ r_stop = NoStop

InitPlayer ==
    /\ ppc = "none" /\ p_running = FALSE /\ p_events = <<>> /\ speed = 10 /\ loops = 1
    /\ k = 0 /\ i = 0 /\ p_elapsed = 0 /\ p_sleep = 0 /\ p_chan = <<>>
    /\ p_trace = <<>> /\ pressedDown = {} /\ p_stopReq = FALSE /\ p_stopInWait = FALSE
    /\ sinceStop = 0 /\ playIgnored = FALSE /\ dispatched = 0

\* --------------------------------------- GlobalKeyWatcher and the hotkeys
\* Keycodes the watcher reports: Control_L, a, Shift_L.
WatchedKeys == {37, 38, 50}

\* The three slots the controller queues, in the order the lambda tests them.
Slots == <<"onToggleRecord", "onTogglePlay", "onStopPlaybackHotkey">>

\* The Config field that holds the combo of a slot.
ComboOf(cfg, slot) ==
    IF slot = "onToggleRecord" THEN cfg.startRecording
    ELSE IF slot = "onTogglePlay" THEN cfg.startPlayback
    ELSE cfg.stopPlayback

\* operator< of unsigned int, as std::sort and std::set order keycodes.
KeyLess(a, b) == a < b

\* std::sort of a vector of keycodes.
SortedKeys(v) == SortSeq(v, KeyLess)

\* std::vector v(downSet.begin(), downSet.end()): the set in ascending order.
DownVector(S) ==
    CHOOSE v \in [1..Cardinality(S) -> S] :
        \A a, b \in 1..Cardinality(S) : a < b => v[a] < v[b]

\* Config as loadConfig() left it: all three combos bound, one key each.
BoundConfig ==
    [startRecording |-> <<37>>, startPlayback |-> <<38>>, stopPlayback |-> <<50>>]

\* After the constructor: keyWatcher->start() was called, nothing is down,
\* nothing is queued; config is what loadConfig() read.
InitKeys(cfgs) ==
    /\ kpc = "started" /\ downSet = {} /\ k_chan = <<>>
    /\ posted = <<>> /\ k_raw = <<>>
    /\ config \in cfgs

\* run(): XOpenDisplay, XQueryExtension or XIQueryVersion fails: silent return.
W_OpenFail ==
    /\ kpc = "started"
    /\ kpc' = "returned"
    /\ UNCHANGED <<downSet, k_chan, config, posted, k_raw>>
    /\ UNCHANGED <<ctlVars, recVars, recObs, playVars, playObs, envVars, stopVars, fileVars, dlgVars>>

\* run(): the display opened and raw key events are selected; downSet is empty.
W_OpenOk ==
    /\ kpc = "started"
    /\ kpc' = "loop"
    /\ downSet' = {}
    /\ UNCHANGED <<k_chan, config, posted, k_raw>>
    /\ UNCHANGED <<ctlVars, recVars, recObs, playVars, playObs, envVars, stopVars, fileVars, dlgVars>>

\* downSet.insert(code) on XI_RawKeyPress, downSet.erase(code) on
\* XI_RawKeyRelease.
DownSetAfter(S, note) ==
    IF note.press THEN S \cup {note.code} ELSE S \ {note.code}

\* One raw key notification: the set is updated and currentDownSetChanged is
\* emitted with the set in ascending order, whether or not the set changed.
\* (changed is observation only: it is not part of the emitted vector.)
W_KeyEvent(notes) ==
    /\ kpc = "loop"
    /\ \E note \in notes :
         /\ downSet' = DownSetAfter(downSet, note)
         /\ k_chan' = Append(k_chan, [keys |-> DownVector(downSet'),
                                      changed |-> downSet' # downSet])
         /\ k_raw' = Append(k_raw, note)
    /\ UNCHANGED <<kpc, config, posted>>
    /\ UNCHANGED <<ctlVars, recVars, recObs, playVars, playObs, envVars, stopVars, fileVars, dlgVars>>

\* The set of keycodes of a vector.
KeySet(v) == {v[n] : n \in 1..Len(v)}

\* Variants of the comparison, for contrast: the combo compared as stored, and
\* std::includes (every key of the combo is down).
ComboMatchesAsStored(saved, s) ==
    /\ saved # <<>>
    /\ saved = s

ComboMatchesWhenContained(saved, s) ==
    /\ saved # <<>>
    /\ KeySet(saved) \subseteq KeySet(s)

\* if (!keys.empty()) { savedSorted = sorted(saved); if (savedSorted == s) ... }
ComboMatches(saved, s) ==
    /\ saved # <<>>
    /\ SortedKeys(saved) = s

\* The slots the lambda queues for one notification, in program order.
SlotsQueuedFor(cfg, downset) ==
    LET s == SortedKeys(downset)
    IN  SelectSeq(Slots, LAMBDA slot : ComboMatches(ComboOf(cfg, slot), s))

\* The GUI thread runs the lambda connected to currentDownSetChanged for the
\* next queued notification: QMetaObject::invokeMethod(..., QueuedConnection)
\* for every matching combo.
GuiDownSetChanged ==
    /\ k_chan # <<>>
    /\ posted' = posted \o SlotsQueuedFor(config, Head(k_chan).keys)
    /\ k_chan' = Tail(k_chan)
    /\ UNCHANGED <<kpc, downSet, config, k_raw>>
    /\ UNCHANGED <<ctlVars, recVars, recObs, playVars, playObs, envVars, stopVars, fileVars, dlgVars>>

\* ----------------------------------------------------- combo-capture dialog
\* The three combos of Config, by field name.
ComboFields == {"startRecording", "startPlayback", "stopPlayback"}

\* The dialog holds at most this many keys.
MaxComboKeys == 3

\* comboTimer->setInterval(1000).
ComboTimeoutMs == 1000

\* Time passes in the dialog by this much at a time.
DlgTickMs == 500

\* bool useTimeout = (target != &config.startRecording).
useTimeout(field) == field # "startRecording"

\* The StopWatcher was never started and the GUI thread is in its event loop.
InitStopWatcher == swpc = "none" /\ sw_running = FALSE /\ gui = "idle"

\* No dialog is open and no CaptureWorker exists.
InitDialog ==
    /\ dlgpc = "closed" /\ dlgTarget = "none" /\ dlgResult = "Rejected" /\ seq = <<>> /\ comboTimer = -1
    /\ cwpc = "none" /\ cw_running = FALSE /\ cw_chan = <<>>
    /\ d_notes = <<>> /\ sinceAccept = -1 /\ d_count = 0

\* openCaptureDialog(target) up to dlg.exec(): the in-progress sequence
\* starts as the slot's stored keys, or empty when the slot holds 3 or more;
\* the worker thread is started and, for the slots with a timeout, so is the
\* timer.
OpenCaptureDialog(field) ==
    /\ dlgpc = "closed"
    /\ dlgpc' = "exec"
    /\ dlgTarget' = field
    /\ dlgResult' = "Rejected"
    /\ seq' = IF Len(config[field]) >= MaxComboKeys THEN <<>> ELSE config[field]
    /\ comboTimer' = IF useTimeout(field) THEN ComboTimeoutMs ELSE -1
    /\ cwpc' = "started" /\ cw_running' = FALSE /\ cw_chan' = <<>>
    /\ d_notes' = <<>> /\ sinceAccept' = -1
    /\ UNCHANGED d_count
    /\ UNCHANGED <<ctlVars, recVars, recObs, playVars, playObs, envVars, stopVars, keyVars, fileVars>>

\* CaptureWorker::run(): running = true; XOpenDisplay, XQueryExtension or
\* XIQueryVersion fails: finished(), return.
CW_OpenFail ==
    /\ cwpc = "started"
    /\ cw_running' = TRUE
    /\ cwpc' = "returned"
    /\ UNCHANGED <<dlgpc, dlgTarget, dlgResult, seq, comboTimer, cw_chan, d_notes, sinceAccept, d_count>>
    /\ UNCHANGED <<ctlVars, recVars, recObs, playVars, playObs, envVars, stopVars, keyVars, fileVars>>

\* CaptureWorker::run(): running = true; the display opened and
\* XI_RawKeyPress is selected.
CW_OpenOk ==
    /\ cwpc = "started"
    /\ cw_running' = TRUE
    /\ cwpc' = "loop"
    /\ UNCHANGED <<dlgpc, dlgTarget, dlgResult, seq, comboTimer, cw_chan, d_notes, sinceAccept, d_count>>
    /\ UNCHANGED <<ctlVars, recVars, recObs, playVars, playObs, envVars, stopVars, keyVars, fileVars>>

\* while (running): an XI_RawKeyPress is read and capturedKey(code) is
\* emitted (queued to the dialog).
CW_KeyPress(codes) ==
    /\ cwpc = "loop" /\ cw_running
    /\ \E code \in codes :
          /\ cw_chan' = Append(cw_chan, code)
          /\ d_notes' = Append(d_notes, code)
    /\ d_count' = d_count + 1
    /\ UNCHANGED <<dlgpc, dlgTarget, dlgResult, seq, comboTimer, cwpc, cw_running, sinceAccept>>
    /\ UNCHANGED <<ctlVars, recVars, recObs, playVars, playObs, envVars, stopVars, keyVars, fileVars>>

\* while (running) ends: XCloseDisplay, finished().
CW_Exit ==
    /\ cwpc = "loop" /\ ~cw_running
    /\ cwpc' = "returned"
    /\ UNCHANGED <<dlgpc, dlgTarget, dlgResult, seq, comboTimer, cw_running, cw_chan, d_notes,
                   sinceAccept, d_count>>
    /\ UNCHANGED <<ctlVars, recVars, recObs, playVars, playObs, envVars, stopVars, keyVars, fileVars>>

\* The capturedKey lambda that never stops appending new keys.
SeqAfterKeyUnbounded(keys, keycode) ==
    IF \E n \in 1..Len(keys) : keys[n] = keycode THEN keys ELSE Append(keys, keycode)

\* The capturedKey lambda: a keycode already in the sequence is skipped; a
\* new one is appended while the sequence holds fewer than 3.
SeqAfterKey(keys, keycode) ==
    IF \E n \in 1..Len(keys) : keys[n] = keycode THEN keys
    ELSE IF Len(keys) < MaxComboKeys THEN Append(keys, keycode)
    ELSE keys

\* The dialog handles the next queued capturedKey; an accepted keycode
\* restarts the timer of the slots that have one.
DlgCapturedKey ==
    /\ dlgpc = "exec"
    /\ cw_chan # <<>>
    /\ seq' = SeqAfterKey(seq, Head(cw_chan))
    /\ cw_chan' = Tail(cw_chan)
    /\ IF seq' # seq
       THEN /\ comboTimer' = IF useTimeout(dlgTarget) THEN ComboTimeoutMs ELSE comboTimer
            /\ sinceAccept' = 0
       ELSE UNCHANGED <<comboTimer, sinceAccept>>
    /\ UNCHANGED <<dlgpc, dlgTarget, dlgResult, cwpc, cw_running, d_notes, d_count>>
    /\ UNCHANGED <<ctlVars, recVars, recObs, playVars, playObs, envVars, stopVars, keyVars, fileVars>>

\* Reset: seq.clear(); the timer is stopped.
DlgReset ==
    /\ dlgpc = "exec"
    /\ seq' = <<>>
    /\ comboTimer' = -1
    /\ UNCHANGED <<dlgpc, dlgTarget, dlgResult, cwpc, cw_running, cw_chan, d_notes, sinceAccept, d_count>>
    /\ UNCHANGED <<ctlVars, recVars, recObs, playVars, playObs, envVars, stopVars, keyVars, fileVars>>

\* The single-shot timer fires: worker->stop().
DlgTimeout ==
    /\ dlgpc = "exec"
    /\ comboTimer = 0
    /\ comboTimer' = -1
    /\ cw_running' = FALSE
    /\ UNCHANGED <<dlgpc, dlgTarget, dlgResult, seq, cwpc, cw_chan, d_notes, sinceAccept, d_count>>
    /\ UNCHANGED <<ctlVars, recVars, recObs, playVars, playObs, envVars, stopVars, keyVars, fileVars>>

\* DlgTickMs pass while the dialog runs; a due timer fires before more time
\* passes.
DlgTick ==
    /\ dlgpc = "exec"
    /\ comboTimer # 0
    /\ comboTimer' = IF comboTimer > 0 THEN Max(comboTimer - DlgTickMs, 0) ELSE comboTimer
    /\ sinceAccept' = IF sinceAccept >= 0
                      THEN Min(sinceAccept + DlgTickMs, ComboTimeoutMs) ELSE sinceAccept
    /\ comboTimer' # comboTimer \/ sinceAccept' # sinceAccept
    /\ UNCHANGED <<dlgpc, dlgTarget, dlgResult, seq, cwpc, cw_running, cw_chan, d_notes, d_count>>
    /\ UNCHANGED <<ctlVars, recVars, recObs, playVars, playObs, envVars, stopVars, keyVars, fileVars>>

\* A Cancel that keeps the keys: the sequence is stored in the slot.
DlgCancelKeepingKeys ==
    /\ dlgpc = "exec"
    /\ cw_running' = FALSE
    /\ dlgpc' = "join"
    /\ dlgResult' = "Rejected"
    /\ config' = [config EXCEPT ![dlgTarget] = seq]
    /\ UNCHANGED <<dlgTarget, seq, comboTimer, cwpc, cw_chan, d_notes, sinceAccept, d_count>>
    /\ UNCHANGED <<kpc, downSet, k_chan, posted, k_raw, fileVars>>
    /\ UNCHANGED <<ctlVars, recVars, recObs, playVars, playObs, envVars, stopVars>>

\* Cancel (dlg.reject()), or the dialog is closed: worker->stop() and exec()
\* returns.
DlgCancel ==
    /\ dlgpc = "exec"
    /\ cw_running' = FALSE
    /\ dlgpc' = "join"
    /\ dlgResult' = "Rejected"
    /\ UNCHANGED <<dlgTarget, seq, comboTimer, cwpc, cw_chan, d_notes, sinceAccept, d_count>>
    /\ UNCHANGED <<ctlVars, recVars, recObs, playVars, playObs, envVars, stopVars, keyVars, fileVars>>

\* Save: target->keys = seq; saveConfig(); worker->stop(); dlg.accept().
DlgSave(oks) ==
    /\ dlgpc = "exec"
    /\ config' = [config EXCEPT ![dlgTarget] = seq]
    /\ \E ok \in oks : SaveConfig(config', lastDir, ok)
    /\ cw_running' = FALSE
    /\ dlgpc' = "join"
    /\ dlgResult' = "Accepted"
    /\ UNCHANGED <<dlgTarget, seq, comboTimer, cwpc, cw_chan, d_notes, sinceAccept, d_count>>
    /\ UNCHANGED <<kpc, downSet, k_chan, posted, k_raw, disk, lastDir>>
    /\ UNCHANGED <<ctlVars, recVars, recObs, playVars, playObs, envVars, stopVars>>

\* After exec() has returned: worker->stop().
DlgStop ==
    /\ dlgpc = "join"
    /\ cw_running' = FALSE
    /\ dlgpc' = "wait"
    /\ UNCHANGED <<dlgTarget, dlgResult, seq, comboTimer, cwpc, cw_chan, d_notes, sinceAccept, d_count>>
    /\ UNCHANGED <<ctlVars, recVars, recObs, playVars, playObs, envVars, stopVars, keyVars, fileVars>>

\* workerThread->quit(); workerThread->wait() returns once run() has
\* returned; worker and thread are deleted and the dialog, with whatever was
\* still queued for it, is gone.
DlgJoin ==
    /\ dlgpc = "wait"
    /\ cwpc = "returned"
    /\ dlgpc' = "closed" /\ dlgTarget' = "none" /\ dlgResult' = "Rejected"
    /\ seq' = <<>> /\ comboTimer' = -1
    /\ cwpc' = "none" /\ cw_running' = FALSE /\ cw_chan' = <<>>
    /\ d_notes' = <<>> /\ sinceAccept' = -1
    /\ UNCHANGED d_count
    /\ UNCHANGED <<ctlVars, recVars, recObs, playVars, playObs, envVars, stopVars, keyVars, fileVars>>

\* The Clear entries of the hotkey menu: keys.clear(); saveConfig().
ClearCombo(field, oks) ==
    /\ dlgpc = "closed"
    /\ config' = [config EXCEPT ![field] = <<>>]
    /\ \E ok \in oks : SaveConfig(config', lastDir, ok)
    /\ UNCHANGED <<kpc, downSet, k_chan, posted, k_raw, disk, lastDir>>
    /\ UNCHANGED <<ctlVars, recVars, recObs, playVars, playObs, envVars, stopVars, dlgVars>>

Init == InitCtl /\ InitRecorder /\ InitPlayer /\ layout = 1 /\ InitKeys({BoundConfig}) /\ InitFiles(TRUE) /\ InitDialog /\ InitStopWatcher

\* ------------------------------------------------------------ RecorderThread
\* run(): running = true.
R_Begin ==
    /\ rpc = "started"
    /\ r_running' = TRUE
    /\ rpc' = "open"
    /\ UNCHANGED <<r_events, downButtons, last_xy, r_elapsed, r_chan>>
    /\ UNCHANGED <<ctlVars, recObs, playVars, playObs, envVars, stopVars, keyVars, fileVars, dlgVars>>

RecorderOpenFailures == {"Failed to open X display", "XInput2 not available", "XInput2 < 2.0"}

\* XOpenDisplay / XQueryExtension / XIQueryVersion fails: a status, and return.
R_OpenFail ==
    /\ rpc = "open"
    /\ \E s \in RecorderOpenFailures : r_chan' = Append(r_chan, StatusSig(s))
    /\ rpc' = "returned"
    /\ UNCHANGED <<r_running, r_events, downButtons, last_xy, r_elapsed>>
    /\ UNCHANGED <<ctlVars, recObs, playVars, playObs, envVars, stopVars, keyVars, fileVars, dlgVars>>

\* The backend opened: events.clear(), start = now_ms(), "Recording...".
R_OpenOk ==
    /\ rpc = "open"
    /\ r_events' = <<>>
    /\ r_elapsed' = 0
    /\ r_chan' = Append(r_chan, StatusSig("Recording..."))
    /\ last_xy' = <<-1, -1>>
    /\ downButtons' = {}
    /\ rpc' = "loop"
    /\ UNCHANGED r_running
    /\ UNCHANGED <<ctlVars, recObs, playVars, playObs, envVars, stopVars, keyVars, fileVars, dlgVars>>

\* while (running) with nothing pending (or an event that is not an XInput2
\* event): sleep and continue.
R_Idle ==
    /\ rpc = "loop" /\ r_running
    /\ rpc' = "sleep"
    /\ UNCHANGED <<r_running, r_events, downButtons, last_xy, r_elapsed, r_chan>>
    /\ UNCHANGED <<ctlVars, recObs, playVars, playObs, envVars, stopVars, keyVars, fileVars, dlgVars>>

\* The 10 ms idle sleep is over: back to while (running).  The sleep only
\* delays the next poll, and any delay between two steps is possible anyway.
R_IdleDone ==
    /\ rpc = "sleep"
    /\ rpc' = "loop"
    /\ UNCHANGED <<r_running, r_events, downButtons, last_xy, r_elapsed, r_chan>>
    /\ UNCHANGED <<ctlVars, recObs, playVars, playObs, envVars, stopVars, keyVars, fileVars, dlgVars>>

\* The raw notifications XNextEvent can deliver.
RawNotifications ==
    [evtype : {"XI_RawMotion"}, detail : {0}]
    \cup [evtype : {"XI_RawButtonPress", "XI_RawButtonRelease"}, detail : Buttons]
    \cup [evtype : {"XI_RawKeyPress", "XI_RawKeyRelease"}, detail : Keycodes]

\* The loop body with events.insert(events.begin(), e) for push_back(e).
RecordedAfterPrepended(evs, ev, pos, t, last, lay) ==
    CASE ev.evtype = "XI_RawMotion" ->
            IF pos # last THEN <<MouseMoveAt(lay, t, pos)>> \o evs ELSE evs
      [] ev.evtype \in {"XI_RawButtonPress", "XI_RawButtonRelease"} ->
            <<MouseButtonAt(lay, t, pos, ev.detail, ev.evtype = "XI_RawButtonPress")>> \o evs
      [] OTHER ->
            <<KeyAt(t, ev.detail, ev.evtype = "XI_RawKeyPress")>> \o evs

\* The loop body without its test x != last_x || y != last_y.
RecordedAfterNoDedupe(evs, ev, pos, t, last, lay) ==
    CASE ev.evtype = "XI_RawMotion" -> Append(evs, MouseMoveAt(lay, t, pos))
      [] ev.evtype \in {"XI_RawButtonPress", "XI_RawButtonRelease"} ->
            Append(evs, MouseButtonAt(lay, t, pos, ev.detail, ev.evtype = "XI_RawButtonPress"))
      [] OTHER ->
            Append(evs, KeyAt(t, ev.detail, ev.evtype = "XI_RawKeyPress"))

\* The log after one notification ev, the pointer being at pos, t ms after start.
RecordedAfter(evs, ev, pos, t, last, lay) ==
    CASE ev.evtype = "XI_RawMotion" ->
            IF pos # last THEN Append(evs, MouseMoveAt(lay, t, pos)) ELSE evs
      [] ev.evtype \in {"XI_RawButtonPress", "XI_RawButtonRelease"} ->
            Append(evs, MouseButtonAt(lay, t, pos, ev.detail, ev.evtype = "XI_RawButtonPress"))
      [] OTHER ->
            Append(evs, KeyAt(t, ev.detail, ev.evtype = "XI_RawKeyPress"))

\* downButtons after one notification.
DownAfter(down, ev) ==
    CASE ev.evtype = "XI_RawButtonPress" -> down \cup {ev.detail}
      [] ev.evtype = "XI_RawButtonRelease" -> down \ {ev.detail}
      [] OTHER -> down

\* while (running): one raw notification is pending and is processed.
R_Event(inputs, cap) ==
    /\ rpc = "loop" /\ r_running
    /\ Len(r_raw) < cap
    /\ \E ev \in inputs, pos \in Points :
          /\ r_events' = RecordedAfter(r_events, ev, pos, r_elapsed, last_xy, layout)
          /\ downButtons' = DownAfter(downButtons, ev)
          /\ last_xy' = IF ev.evtype = "XI_RawMotion" THEN pos ELSE last_xy
          /\ r_raw' = Append(r_raw, ev)
    /\ UNCHANGED <<rpc, r_running, r_elapsed, r_chan, r_stopReq, r_stop>>
    /\ UNCHANGED <<ctlVars, playVars, playObs, envVars, stopVars, keyVars, fileVars, dlgVars>>

\* run() without its `if (!downButtons.empty())` block: nothing is synthesized.
SyntheticReleasesNone(ord, pos, t, lay) == <<>>

\* The synthesized releases with ms_since_start left at its default of 0.
SyntheticReleasesUnstamped(ord, pos, t, lay) ==
    [n \in 1..Len(ord) |-> MouseButtonAt(lay, 0, pos, ord[n], FALSE)]

\* The releases synthesized for the buttons still down, in the enumeration
\* order ord of the unordered set.
SyntheticReleases(ord, pos, t, lay) ==
    [n \in 1..Len(ord) |-> MouseButtonAt(lay, t, pos, ord[n], FALSE)]

\* The log as run() leaves it once the loop has ended.
DrainedLog(evs, ord, pos, t, lay) == evs \o SyntheticReleases(ord, pos, t, lay)

\* while (running) fails: synthesize the releases, "Stopped.",
\* finishedRecording, return.
R_Exit ==
    /\ rpc = "loop" /\ ~r_running
    /\ \E ord \in Orders(downButtons), pos \in Points :
          /\ r_events' = DrainedLog(r_events, ord, pos, r_elapsed, layout)
          /\ downButtons = {} => pos = <<0, 0>>
          /\ r_stop' = [set |-> TRUE, t |-> r_elapsed, pos |-> pos,
                        held |-> downButtons, len |-> Len(r_events)]
    /\ r_chan' = r_chan \o <<StatusSig("Stopped."),
                             FinishedRecordingSig("Recorded %1 events")>>
    /\ rpc' = "returned"
    /\ UNCHANGED <<r_running, downButtons, last_xy, r_elapsed, r_raw, r_stopReq>>
    /\ UNCHANGED <<ctlVars, playVars, playObs, envVars, stopVars, keyVars, fileVars, dlgVars>>

\* ------------------------------------------------ MainWindow: record toggle
\* onToggleRecord(): start a recorder if there is none, else ask it to stop.
OnToggleRecord ==
    IF activeRecorder = "nullptr"
    THEN /\ activeRecorder' = "recorder"
         /\ liveRecorders' = liveRecorders + 1
         /\ rpc' = "started" /\ r_running' = FALSE /\ r_events' = <<>>
         /\ downButtons' = {} /\ last_xy' = <<-1, -1>> /\ r_elapsed' = 0
         /\ r_chan' = <<>>
         /\ r_raw' = <<>> /\ r_stopReq' = FALSE /\ r_stop' = NoStop
         /\ btnRecordText' = "Stop"
         /\ btnPlayEnabled' = FALSE
         /\ btnSaveEnabled' = FALSE
         /\ UNCHANGED <<activePlayer, recorded, status, btnRecordEnabled, btnPlayText,
                        livePlayers>>
         /\ UNCHANGED <<playVars, playObs, envVars, stopVars, keyVars, fileVars, dlgVars>>
    ELSE /\ r_running' = FALSE
         /\ r_stopReq' = TRUE
         /\ btnRecordText' = "Record"
         /\ UNCHANGED <<activeRecorder, activePlayer, recorded, status, btnRecordEnabled,
                        btnPlayText, btnPlayEnabled, btnSaveEnabled, liveRecorders,
                        livePlayers>>
         /\ UNCHANGED <<rpc, r_events, downButtons, last_xy, r_elapsed, r_chan, r_raw, r_stop>>
         /\ UNCHANGED <<playVars, playObs, envVars, stopVars, keyVars, fileVars, dlgVars>>

\* The Record button is clicked (it must be enabled).
ClickRecord == btnRecordEnabled /\ OnToggleRecord

\* The start-recording combo matched: onToggleRecord is invoked through the
\* event queue, whatever the buttons' state.
HotkeyRecord == config.startRecording # <<>> /\ OnToggleRecord

\* The GUI thread handles the recorder's next queued signal.
GuiRecorderSignal ==
    /\ r_chan # <<>>
    /\ LET m == Head(r_chan) IN
       IF m.sig = "status"
       THEN /\ status' = m.text
            /\ r_chan' = Tail(r_chan)
            /\ UNCHANGED <<activeRecorder, activePlayer, recorded, btnRecordText,
                           btnRecordEnabled, btnPlayText, btnPlayEnabled, btnSaveEnabled,
                           liveRecorders, livePlayers>>
            /\ UNCHANGED <<rpc, r_running, r_events, downButtons, last_xy, r_elapsed>>
       ELSE \* finishedRecording: take the log, delete the recorder.
            /\ status' = m.text
            /\ recorded' = r_events
            /\ btnRecordText' = "Record"
            /\ btnPlayEnabled' = TRUE
            /\ btnSaveEnabled' = (r_events # <<>>)
            /\ liveRecorders' = liveRecorders - 1
            /\ activeRecorder' = "nullptr"
            /\ rpc' = "none" /\ r_running' = FALSE /\ r_events' = <<>>
            /\ downButtons' = {} /\ last_xy' = <<-1, -1>> /\ r_elapsed' = 0
            /\ r_chan' = <<>>
            /\ UNCHANGED <<activePlayer, btnRecordEnabled, btnPlayText, livePlayers>>
    /\ UNCHANGED <<recObs, playVars, playObs, envVars, stopVars, keyVars, fileVars, dlgVars>>

\* -------------------------------------------------------------- PlayerThread
\* The values the speed spin box (in tenths: 10 is x1.0) and the loop controls
\* can hold when a playback is started.
Speeds == {10, 20}
LoopChoices == (1..MaxLoops) \cup {INT_MAX}

\* The outer loop with k += 2 for ++k.
NextPassesSkipping(n, lp) ==
    IF lp = INT_MAX
    THEN (IF n = 0 THEN {1} ELSE {1, INT_MAX})
    ELSE {n + 2}

\* ++k.  The pass counter is kept exactly for the finite loop counts.  With
\* loops = INT_MAX it is kept as 0, 1 or INT_MAX, where 1 stands for every
\* count in 1..INT_MAX-1: one more pass leaves such a count below INT_MAX, or,
\* when the count was INT_MAX-1, makes it INT_MAX.
NextPasses(n, lp) ==
    IF lp = INT_MAX
    THEN (IF n = 0 THEN {1} ELSE {1, INT_MAX})
    ELSE {n + 1}

SetMax(S) == CHOOSE m \in S : \A n \in S : n <= m
SetMin(S) == CHOOSE m \in S : \A n \in S : m <= n

\* The offset computed as e.ms_since_start * speed.
ScheduledOffsetMultiplied(t, sp) == (t * sp) \div 10

\* (std::int64_t)(e.ms_since_start / speed)
ScheduledOffset(t, sp) == (t * 10) \div sp

\* The player's elapsed time now_ms() - start is kept up to the largest offset
\* any event can be scheduled at: beyond it no comparison target > n is true.
PlayClockCap == ScheduledOffset(Max(SetMax(LogTimes), RecClockCap), SetMin(Speeds))

\* One entry of the player's output: an XTest call or an emitted status.
\* src tells a log event handed to the backend ("log") from the automatic release
\* ("auto") and the final safety releases ("safety").
XMotion(x, y, src) ==
    [call |-> "motion", x |-> x, y |-> y, detail |-> 0, down |-> FALSE, src |-> src, text |-> ""]
XButton(b, down, src) ==
    [call |-> "button", x |-> 0, y |-> 0, detail |-> b, down |-> down, src |-> src, text |-> ""]
XKey(code, down, src) ==
    [call |-> "key", x |-> 0, y |-> 0, detail |-> code, down |-> down, src |-> src, text |-> ""]
Emitted(s) ==
    [call |-> "status", x |-> 0, y |-> 0, detail |-> 0, down |-> FALSE, src |-> "status", text |-> s]

\* The replay position that ignores the monitor: the recorded coordinate.
ReplayXRecorded(e, lay) == e.x

\* The position a mouse event is replayed at, and whether its monitor resolved.
Resolves(e, lay) == e.monitor # "" /\ findMonitorByName(lay, e.monitor).name # ""
ReplayX(e, lay) == IF Resolves(e, lay) THEN findMonitorByName(lay, e.monitor).x + e.relx ELSE e.x
ReplayY(e, lay) == IF Resolves(e, lay) THEN findMonitorByName(lay, e.monitor).y + e.rely ELSE e.y

\* The dispatch that never moves the pointer before a button event.
DispatchCallsNoMotion(e, lay) ==
    CASE e.type = "MouseMove" -> <<XMotion(ReplayX(e, lay), ReplayY(e, lay), "log")>>
      [] e.type = "MouseButton" -> <<XButton(e.button, e.pressed, "log")>>
      [] OTHER -> <<XKey(e.keycode, e.pressed, "log")>>

\* The dispatch that moves the pointer before every button event.
DispatchCallsMoveFirst(e, lay) ==
    CASE e.type = "MouseMove" -> <<XMotion(ReplayX(e, lay), ReplayY(e, lay), "log")>>
      [] e.type = "MouseButton" ->
            <<XMotion(ReplayX(e, lay), ReplayY(e, lay), "log"), XButton(e.button, e.pressed, "log")>>
      [] OTHER -> <<XKey(e.keycode, e.pressed, "log")>>

\* The XTest calls that dispatch event e.
DispatchCalls(e, lay) ==
    CASE e.type = "MouseMove" -> <<XMotion(ReplayX(e, lay), ReplayY(e, lay), "log")>>
      [] e.type = "MouseButton" ->
            (IF Resolves(e, lay) THEN <<XMotion(ReplayX(e, lay), ReplayY(e, lay), "log")>> ELSE <<>>)
            \o <<XButton(e.button, e.pressed, "log")>>
      [] OTHER -> <<XKey(e.keycode, e.pressed, "log")>>

\* nextIsRelease: the event after index n (0-based) releases the same button.
NextIsRelease(evs, n) ==
    /\ n + 1 < Len(evs)
    /\ evs[n + 2].type = "MouseButton"
    /\ evs[n + 2].button = evs[n + 1].button
    /\ ~evs[n + 2].pressed

\* The buttons the playback holds down after one more XTest call.
DownAfterCall(down, c) ==
    IF c.call = "button"
    THEN (IF c.down THEN down \cup {c.detail} ELSE down \ {c.detail})
    ELSE down

RECURSIVE DownAfterCalls(_, _)
DownAfterCalls(down, cs) ==
    IF cs = <<>> THEN down ELSE DownAfterCalls(DownAfterCall(down, Head(cs)), Tail(cs))

\* The safety loop written with b < 7: button 7 is not released.
SafetyReleasesShort ==
    [n \in 1..(SafetyLastButton - SafetyFirstButton) |->
        XButton(SafetyFirstButton + n - 1, FALSE, "safety")]

\* The releases of the final safety loop, for (b = 1; b <= 7; ++b).
SafetyReleases ==
    [n \in 1..(SafetyLastButton - SafetyFirstButton + 1) |->
        XButton(SafetyFirstButton + n - 1, FALSE, "safety")]

\* run(): an empty log is reported and nothing else happens; else running = true.
P_Begin ==
    /\ ppc = "started"
    /\ IF p_events = <<>>
       THEN /\ p_chan' = Append(p_chan, StatusSig("No events to play"))
            /\ p_trace' = Append(p_trace, Emitted("No events to play"))
            /\ ppc' = "returned"
            /\ UNCHANGED p_running
       ELSE /\ p_running' = TRUE
            /\ ppc' = "open"
            /\ UNCHANGED <<p_chan, p_trace>>
    /\ UNCHANGED <<p_events, speed, loops, k, i, p_elapsed, p_sleep>>
    /\ UNCHANGED <<pressedDown, p_stopReq, p_stopInWait, sinceStop, playIgnored, dispatched>>
    /\ UNCHANGED <<ctlVars, recVars, recObs, envVars, stopVars, keyVars, fileVars, dlgVars>>

\* XOpenDisplay fails: a status, and return.
P_OpenFail ==
    /\ ppc = "open"
    /\ p_chan' = Append(p_chan, StatusSig("Failed to open X display"))
    /\ p_trace' = Append(p_trace, Emitted("Failed to open X display"))
    /\ ppc' = "returned"
    /\ UNCHANGED <<p_running, p_events, speed, loops, k, i, p_elapsed, p_sleep>>
    /\ UNCHANGED <<pressedDown, p_stopReq, p_stopInWait, sinceStop, playIgnored, dispatched>>
    /\ UNCHANGED <<ctlVars, recVars, recObs, envVars, stopVars, keyVars, fileVars, dlgVars>>

\* The display opened: "Playing (...)...", and the outer loop starts at k = 0.
P_OpenOk ==
    /\ ppc = "open"
    /\ p_chan' = Append(p_chan, StatusSig("Playing (%1 loops, speed x%2)..."))
    /\ p_trace' = Append(p_trace, Emitted("Playing (%1 loops, speed x%2)..."))
    /\ k' = 0
    /\ ppc' = "loopcheck"
    /\ UNCHANGED <<p_running, p_events, speed, loops, i, p_elapsed, p_sleep>>
    /\ UNCHANGED <<pressedDown, p_stopReq, p_stopInWait, sinceStop, playIgnored, dispatched>>
    /\ UNCHANGED <<ctlVars, recVars, recObs, envVars, stopVars, keyVars, fileVars, dlgVars>>

\* for (k ...; k < loops && running; ...): a pass starts (start = now_ms(),
\* i = 0) or the loops are over.  p_trace holds the output of the current pass.
P_LoopCheck ==
    /\ ppc = "loopcheck"
    /\ IF k < loops /\ p_running
       THEN /\ p_elapsed' = 0
            /\ i' = 0
            /\ p_trace' = <<>>
            /\ ppc' = "eventcheck"
       ELSE /\ ppc' = "safety"
            /\ UNCHANGED <<p_elapsed, i, p_trace>>
    /\ UNCHANGED <<p_running, p_events, speed, loops, k, p_sleep, p_chan>>
    /\ UNCHANGED <<pressedDown, p_stopReq, p_stopInWait, sinceStop, playIgnored, dispatched>>
    /\ UNCHANGED <<ctlVars, recVars, recObs, envVars, stopVars, keyVars, fileVars, dlgVars>>

\* for (i ...; i < events.size() && running; ...): the next event is scheduled
\* (target = start + offset, n = now_ms(), sleep for target - n if positive), or
\* the pass is over (++k).
P_EventCheck ==
    /\ ppc = "eventcheck"
    /\ IF i < Len(p_events) /\ p_running
       THEN /\ LET target == ScheduledOffset(p_events[i + 1].ms_since_start, speed)
               IN  IF target > p_elapsed
                   THEN p_sleep' = target - p_elapsed /\ ppc' = "wait"
                   ELSE p_sleep' = 0 /\ ppc' = "dispatch"
            /\ UNCHANGED k
       ELSE /\ k' \in NextPasses(k, loops)
            /\ ppc' = "loopcheck"
            /\ UNCHANGED p_sleep
    /\ UNCHANGED <<p_running, p_events, speed, loops, i, p_elapsed, p_chan>>
    /\ UNCHANGED <<playObs, ctlVars, recVars, recObs, envVars, stopVars, keyVars, fileVars, dlgVars>>

\* nanosleep returning at once, whatever the time requested.
P_WakeEarly ==
    /\ ppc = "wait"
    /\ ppc' = "dispatch"
    /\ UNCHANGED <<p_running, p_events, speed, loops, k, i, p_elapsed, p_sleep, p_chan>>
    /\ UNCHANGED <<playObs, ctlVars, recVars, recObs, envVars, stopVars, keyVars, fileVars, dlgVars>>

\* nanosleep(delta) returns once the requested time has passed.
P_Wake ==
    /\ ppc = "wait" /\ p_sleep = 0
    /\ ppc' = "dispatch"
    /\ UNCHANGED <<p_running, p_events, speed, loops, k, i, p_elapsed, p_sleep, p_chan>>
    /\ UNCHANGED <<playObs, ctlVars, recVars, recObs, envVars, stopVars, keyVars, fileVars, dlgVars>>

\* switch (e.type): the event is injected; a button press is followed by the
\* tap delay (its release comes next) or by the automatic release.
P_Dispatch ==
    /\ ppc = "dispatch"
    /\ LET e == p_events[i + 1]
           calls == DispatchCalls(e, layout)
       IN  /\ p_trace' = p_trace \o calls
           /\ pressedDown' = DownAfterCalls(pressedDown, calls)
           /\ IF e.type = "MouseButton" /\ e.pressed
              THEN IF NextIsRelease(p_events, i)
                   THEN p_sleep' = TapDelayMs /\ ppc' = "tap" /\ i' = i
                   ELSE p_sleep' = AutoReleaseDelayMs /\ ppc' = "autorelease" /\ i' = i
              ELSE p_sleep' = 0 /\ ppc' = "eventcheck" /\ i' = i + 1
    /\ dispatched' = IF loops = INT_MAX THEN dispatched ELSE dispatched + 1
    /\ UNCHANGED <<p_running, p_events, speed, loops, k, p_elapsed, p_chan>>
    /\ UNCHANGED <<p_stopReq, p_stopInWait, sinceStop, playIgnored>>
    /\ UNCHANGED <<ctlVars, recVars, recObs, envVars, stopVars, keyVars, fileVars, dlgVars>>

\* auto_release(button): after the 30 ms sleep the button is released.
P_AutoRelease ==
    /\ ppc = "autorelease" /\ p_sleep = 0
    /\ LET c == XButton(p_events[i + 1].button, FALSE, "auto")
       IN  /\ p_trace' = Append(p_trace, c)
           /\ pressedDown' = DownAfterCall(pressedDown, c)
    /\ i' = i + 1
    /\ ppc' = "eventcheck"
    /\ UNCHANGED <<p_running, p_events, speed, loops, k, p_elapsed, p_sleep, p_chan>>
    /\ UNCHANGED <<p_stopReq, p_stopInWait, sinceStop, playIgnored, dispatched>>
    /\ UNCHANGED <<ctlVars, recVars, recObs, envVars, stopVars, keyVars, fileVars, dlgVars>>

\* The 15 ms tap delay is over.
P_TapDone ==
    /\ ppc = "tap" /\ p_sleep = 0
    /\ i' = i + 1
    /\ ppc' = "eventcheck"
    /\ UNCHANGED <<p_running, p_events, speed, loops, k, p_elapsed, p_sleep, p_chan>>
    /\ UNCHANGED <<playObs, ctlVars, recVars, recObs, envVars, stopVars, keyVars, fileVars, dlgVars>>

\* After the loops: release buttons 1..7, close the display, "Playback finished.".
FinalCalls == SafetyReleases \o <<Emitted("Playback finished.")>>

P_Safety ==
    /\ ppc = "safety"
    /\ p_trace' = p_trace \o FinalCalls
    /\ pressedDown' = DownAfterCalls(pressedDown, FinalCalls)
    /\ p_chan' = Append(p_chan, StatusSig("Playback finished."))
    /\ ppc' = "returned"
    /\ UNCHANGED <<p_running, p_events, speed, loops, k, i, p_elapsed, p_sleep>>
    /\ UNCHANGED <<p_stopReq, p_stopInWait, sinceStop, playIgnored, dispatched>>
    /\ UNCHANGED <<ctlVars, recVars, recObs, envVars, stopVars, keyVars, fileVars, dlgVars>>

\* ------------------------------------------------- MainWindow: play and stop
\* The player is inside its loops: run() has set running and opened the display,
\* and has not yet left the outer loop.
InPass == ppc \in {"eventcheck", "wait", "dispatch", "tap", "autorelease"}
InLoop == InPass \/ ppc = "loopcheck"

\* PlayerThread::stop() on the active player; the request is noted, with
\* whether the player was blocked in its wait.
StopPlayer ==
    /\ p_running' = FALSE
    /\ p_stopReq' = TRUE
    /\ p_stopInWait' = IF p_stopReq THEN p_stopInWait ELSE (ppc = "wait")
    /\ sinceStop' = IF p_stopReq THEN sinceStop ELSE 0
    /\ UNCHANGED <<ppc, p_events, speed, loops, k, i, p_elapsed, p_sleep, p_chan>>
    /\ UNCHANGED <<p_trace, pressedDown, playIgnored, dispatched>>

\* onTogglePlay() without its `if (activePlayer) return;`: a player is created
\* on every request over a non-empty log.
OnTogglePlayNoBusyCheck(sp, lp) ==
    /\ recorded # <<>>
    /\ activePlayer' = "player"
    /\ livePlayers' = livePlayers + 1
    /\ p_events' = recorded /\ speed' = sp /\ loops' = lp
    /\ ppc' = "started" /\ p_running' = FALSE
    /\ k' = 0 /\ i' = 0 /\ p_elapsed' = 0 /\ p_sleep' = 0 /\ p_chan' = <<>>
    /\ p_trace' = <<>> /\ pressedDown' = {} /\ p_stopReq' = FALSE
    /\ p_stopInWait' = FALSE /\ sinceStop' = 0 /\ playIgnored' = FALSE
    /\ dispatched' = 0
    /\ btnPlayText' = "Stop"
    /\ btnRecordEnabled' = FALSE
    /\ UNCHANGED <<activeRecorder, recorded, status, btnRecordText, btnPlayEnabled,
                   btnSaveEnabled, liveRecorders>>
    /\ UNCHANGED <<recVars, recObs, envVars, stopVars, keyVars, fileVars, dlgVars>>

\* onTogglePlay(): ignored while a player exists (playIgnored notes that it
\* happened); else a player is created on a copy of a non-empty log, with the
\* speed sp and the loop count lp read from the controls, and started.
OnTogglePlay(sp, lp) ==
    IF activePlayer # "nullptr"
    THEN /\ playIgnored' = TRUE
         /\ UNCHANGED <<p_trace, pressedDown, p_stopReq, p_stopInWait, sinceStop, dispatched>>
         /\ UNCHANGED <<ctlVars, recVars, recObs, playVars, envVars, stopVars, keyVars, fileVars, dlgVars>>
    ELSE IF recorded # <<>>
    THEN /\ activePlayer' = "player"
         /\ livePlayers' = livePlayers + 1
         /\ p_events' = recorded /\ speed' = sp /\ loops' = lp
         /\ ppc' = "started" /\ p_running' = FALSE
         /\ k' = 0 /\ i' = 0 /\ p_elapsed' = 0 /\ p_sleep' = 0 /\ p_chan' = <<>>
         /\ p_trace' = <<>> /\ pressedDown' = {} /\ p_stopReq' = FALSE
         /\ p_stopInWait' = FALSE /\ sinceStop' = 0 /\ playIgnored' = FALSE
         /\ dispatched' = 0
         /\ btnPlayText' = "Stop"
         /\ btnRecordEnabled' = FALSE
         /\ UNCHANGED <<activeRecorder, recorded, status, btnRecordText, btnPlayEnabled,
                        btnSaveEnabled, liveRecorders>>
         /\ UNCHANGED <<recVars, recObs, envVars, stopVars, keyVars, fileVars, dlgVars>>
    ELSE UNCHANGED vars

\* The Play button is clicked (it must be enabled).
ClickPlay(sps, lps) == btnPlayEnabled /\ \E sp \in sps, lp \in lps : OnTogglePlay(sp, lp)

\* The start-playback combo matched.
HotkeyPlay(sps, lps) ==
    /\ config.startPlayback # <<>>
    /\ \E sp \in sps, lp \in lps : OnTogglePlay(sp, lp)

\* onStopPlaybackHotkey(): if (activePlayer) activePlayer->stop().
OnStopPlaybackHotkey ==
    IF activePlayer # "nullptr"
    THEN /\ StopPlayer
         /\ UNCHANGED <<ctlVars, recVars, recObs, envVars, stopVars, keyVars, fileVars, dlgVars>>
    ELSE UNCHANGED vars

\* The GUI thread handles the player's next queued status: a status that
\* contains "finished" or "Stopped" resets the buttons and deletes the player.
GuiPlayerSignal ==
    /\ p_chan # <<>>
    /\ LET m == Head(p_chan) IN
       /\ status' = m.text
       /\ IF ContainsFinishedOrStopped(m.text)
          THEN /\ btnPlayText' = "Play"
               /\ btnRecordEnabled' = TRUE
               /\ IF activePlayer # "nullptr"
                  THEN /\ livePlayers' = livePlayers - 1
                       /\ activePlayer' = "nullptr"
                       /\ ppc' = "none" /\ p_running' = FALSE /\ p_events' = <<>>
                       /\ speed' = 10 /\ loops' = 1 /\ k' = 0 /\ i' = 0
                       /\ p_elapsed' = 0 /\ p_sleep' = 0 /\ p_chan' = <<>>
                  ELSE /\ p_chan' = Tail(p_chan)
                       /\ UNCHANGED <<livePlayers, activePlayer, ppc, p_running, p_events,
                                      speed, loops, k, i, p_elapsed, p_sleep>>
          ELSE /\ p_chan' = Tail(p_chan)
               /\ UNCHANGED <<btnPlayText, btnRecordEnabled, livePlayers, activePlayer,
                              ppc, p_running, p_events, speed, loops, k, i, p_elapsed,
                              p_sleep>>
    /\ UNCHANGED <<activeRecorder, recorded, btnRecordText, btnPlayEnabled, btnSaveEnabled,
                   liveRecorders>>
    /\ UNCHANGED <<playObs, recVars, recObs, envVars, stopVars, keyVars, fileVars, dlgVars>>

\* A Load that also hands the new log to the active player, as if the player
\* read the controller's log instead of its own copy.
LoadIntoPlayer(logs, dirs, oks) ==
    /\ \E log \in logs :
          /\ recorded' = log
          /\ p_events' = IF activePlayer # "nullptr" THEN log ELSE p_events
          /\ btnPlayEnabled' = (log # <<>>)
          /\ btnSaveEnabled' = (log # <<>>)
          /\ IF log # <<>>
             THEN \E dir \in dirs, ok \in oks :
                     /\ lastDir' = dir
                     /\ SaveConfig(config, dir, ok)
             ELSE UNCHANGED <<lastDir, cfgFile, cfgWriteFailed>>
    /\ status' = "Loaded %1 events"
    /\ UNCHANGED disk
    /\ UNCHANGED <<activeRecorder, activePlayer, btnRecordText, btnRecordEnabled,
                   btnPlayText, liveRecorders, livePlayers>>
    /\ UNCHANGED <<ppc, p_running, speed, loops, k, i, p_elapsed, p_sleep, p_chan>>
    /\ UNCHANGED <<recVars, recObs, playObs, envVars, stopVars, keyVars, dlgVars>>

\* The Load button: the log read from the chosen file replaces the log; when
\* it is not empty the file's directory becomes lastDir and the configuration
\* is saved.
Load(logs, dirs, oks) ==
    /\ \E log \in logs :
          /\ recorded' = log
          /\ btnPlayEnabled' = (log # <<>>)
          /\ btnSaveEnabled' = (log # <<>>)
          /\ IF log # <<>>
             THEN \E dir \in dirs, ok \in oks :
                     /\ lastDir' = dir
                     /\ SaveConfig(config, dir, ok)
             ELSE UNCHANGED <<lastDir, cfgFile, cfgWriteFailed>>
    /\ status' = "Loaded %1 events"
    /\ UNCHANGED disk
    /\ UNCHANGED <<activeRecorder, activePlayer, btnRecordText, btnRecordEnabled,
                   btnPlayText, liveRecorders, livePlayers>>
    /\ UNCHANGED <<recVars, recObs, playVars, playObs, envVars, stopVars, keyVars, dlgVars>>

\* The Save button: nothing when the log is empty; else saveRecq() writes
\* the file and, when that succeeded, the file's directory becomes lastDir
\* and the configuration is saved; when the file cannot be opened a warning
\* is shown and nothing changes.
Save(dirs, oks) ==
    /\ recorded # <<>>
    /\ \E written \in BOOLEAN :
          IF written
          THEN /\ disk' = saveRecq(recorded)
               /\ \E dir \in dirs, ok \in oks :
                     /\ lastDir' = dir
                     /\ SaveConfig(config, dir, ok)
          ELSE UNCHANGED fileVars
    /\ UNCHANGED <<ctlVars, recVars, recObs, playVars, playObs, envVars, stopVars, keyVars, dlgVars>>

\* --------------------------------------------------------------------- time
\* sinceStop is the time the player has spent blocked in its wait since a stop
\* was requested; it is kept up to this value.
StopClockCap == IdleSleepMs + TickMs

\* TickMs of monotonic time pass: sleeps run down, elapsed times grow.
Tick ==
    /\ p_sleep' = Max(p_sleep - TickMs, 0)
    /\ p_elapsed' = IF InPass THEN Min(p_elapsed + TickMs, PlayClockCap) ELSE p_elapsed
    /\ r_elapsed' = IF rpc \in {"loop", "sleep"} THEN Min(r_elapsed + TickMs, RecClockCap) ELSE r_elapsed
    /\ sinceStop' = IF p_stopReq /\ ppc = "wait" /\ p_sleep > 0
                    THEN Min(sinceStop + TickMs, StopClockCap) ELSE sinceStop
    /\ UNCHANGED <<ppc, p_running, p_events, speed, loops, k, i, p_chan>>
    /\ UNCHANGED <<p_trace, pressedDown, p_stopReq, p_stopInWait, playIgnored, dispatched>>
    /\ UNCHANGED <<rpc, r_running, r_events, downButtons, last_xy, r_chan>>
    /\ UNCHANGED <<ctlVars, recObs, envVars, stopVars, keyVars, fileVars, dlgVars>>

\* ------------------------------------------------------------ specifications
RecorderSteps(inputs, cap) ==
    \/ R_Begin
    \/ R_OpenFail
    \/ R_OpenOk
    \/ R_Idle
    \/ R_IdleDone
    \/ R_Event(inputs, cap)
    \/ R_Exit

\* The steps of run() that do not sleep: all that a log of key events stamped
\* 0 needs.
PlayerStepsNoSleep ==
    \/ P_Begin
    \/ P_OpenFail
    \/ P_OpenOk
    \/ P_LoopCheck
    \/ P_EventCheck
    \/ P_Dispatch
    \/ P_Safety

PlayerSteps ==
    \/ PlayerStepsNoSleep
    \/ P_Wake
    \/ P_AutoRelease
    \/ P_TapDone

\* The controller with both workers: every interleaving of button clicks,
\* hotkeys, loads, worker steps and queued signals, over key-press captures
\* and two loadable files (one of them empty or unreadable).  The loadable log
\* is one key press stamped 0, which run() dispatches without sleeping, so the
\* player takes its non-sleeping steps here and time does not pass; waits,
\* tap delays and automatic releases are exercised in SpecPlay.
CtlRaw == [evtype : {"XI_RawKeyPress"}, detail : Keycodes]
CtlLogs == {<<>>, <<KeyAt(0, 38, TRUE)>>}
CtlSpeeds == {10}
CtlLoops == {1, INT_MAX}

Next ==
    \/ ClickRecord
    \/ HotkeyRecord
    \/ ClickPlay(CtlSpeeds, CtlLoops)
    \/ HotkeyPlay(CtlSpeeds, CtlLoops)
    \/ OnStopPlaybackHotkey
    \/ Load(CtlLogs, {"home"}, {TRUE})
    \/ GuiRecorderSignal
    \/ GuiPlayerSignal
    \/ RecorderSteps(CtlRaw, CtlMaxRaw)
    \/ PlayerStepsNoSleep

Spec == Init /\ [][Next]_vars

\* The worker threads keep being scheduled and the GUI thread keeps handling
\* queued signals; nothing obliges the user to click or to press a hotkey.
Fairness ==
    /\ WF_vars(RecorderSteps(CtlRaw, CtlMaxRaw))
    /\ WF_vars(PlayerStepsNoSleep)
    /\ WF_vars(GuiRecorderSignal)
    /\ WF_vars(GuiPlayerSignal)

FairSpec == Spec /\ Fairness

\* ---- One playback at a time over every short log a file can hold, with time.
\* The events loadRecq() produces: no monitor name, no relative coordinates.
FileEvents(times, points, buttons, keys) ==
    {Event("MouseMove", t, pt[1], pt[2], 0, FALSE, 0, "", 0, 0) : t \in times, pt \in points}
    \cup {Event("MouseButton", e[1], e[2][1], e[2][2], e[3], e[4], 0, "", 0, 0) :
            e \in times \X points \X buttons \X BOOLEAN}
    \cup {Event("Key", e[1], 0, 0, 0, e[3], e[2], "", 0, 0) : e \in times \X keys \X BOOLEAN}

\* Logs of 1..n events in non-decreasing timestamp order.
LogsOver(evs, n) ==
    {l \in UNION {[1..m -> evs] : m \in 1..n} :
        \A a \in 1..(Len(l) - 1) : l[a].ms_since_start <= l[a + 1].ms_since_start}

\* Button presses and releases, inside and outside the safety range, at the
\* two timestamps.
PlayEvents ==
    {e \in FileEvents(LogTimes, {<<0, 0>>}, Buttons, Keycodes) : e.type = "MouseButton"}
PlayLogs == LogsOver(PlayEvents, MaxLen)
PlaySpeeds == {10}

\* The controller after Load of a non-empty file.
InitPlay ==
    /\ activeRecorder = "nullptr" /\ activePlayer = "nullptr"
    /\ recorded \in PlayLogs /\ status = "Loaded %1 events"
    /\ btnRecordText = "Record" /\ btnRecordEnabled = TRUE
    /\ btnPlayText = "Play" /\ btnPlayEnabled = TRUE /\ btnSaveEnabled = TRUE
    /\ liveRecorders = 0 /\ livePlayers = 0
    /\ InitRecorder /\ InitPlayer /\ layout = 1 /\ InitKeys({BoundConfig}) /\ InitFiles(TRUE) /\ InitDialog /\ InitStopWatcher

\* The user starts a playback when none is active.
StartPlay == activePlayer = "nullptr" /\ ClickPlay(PlaySpeeds, LoopChoices)

NextPlay ==
    \/ StartPlay
    \/ OnStopPlaybackHotkey
    \/ GuiPlayerSignal
    \/ PlayerSteps
    \/ Tick

SpecPlay == InitPlay /\ [][NextPlay]_vars

\* ---- One capture over every short sequence of raw notifications, with time.
\* The user starts a capture from the initial state and may stop it.
StartCapture == activeRecorder = "nullptr" /\ status = "Ready." /\ ClickRecord
StopCapture == activeRecorder # "nullptr" /\ ClickRecord

\* Pointer motion and button notifications; the idle polls, which change
\* nothing but the recorder's place, are left out.
RecRaw == {ev \in RawNotifications : ev.evtype \notin {"XI_RawKeyPress", "XI_RawKeyRelease"}}

NextRec ==
    \/ StartCapture
    \/ StopCapture
    \/ GuiRecorderSignal
    \/ R_Begin
    \/ R_OpenFail
    \/ R_OpenOk
    \/ R_Event(RecRaw, MaxRaw)
    \/ R_Exit
    \/ Tick

SpecRec == Init /\ [][NextRec]_vars

\* ---- Files of any content loaded and played at speed 1.0 or 2.0, with time.
\* loadRecq() keeps the records of a file in file order, whatever their
\* timestamps; an unreadable or empty file gives the empty log.  The files
\* hold key events, which are dispatched without tap delay or automatic
\* release.
FileTimes == {5, 20}
FileKeyEvents == {e \in FileEvents(FileTimes, {}, {}, Keycodes) : e.type = "Key"}
FileLogs == UNION {[1..m -> FileKeyEvents] : m \in 0..MaxLen}

\* Load and Play are used while no playback is active.
LoadFile == activePlayer = "nullptr" /\ Load(FileLogs, {"home"}, {TRUE})
PlayFile == activePlayer = "nullptr" /\ ClickPlay(Speeds, CtlLoops)

NextFile ==
    \/ LoadFile
    \/ PlayFile
    \/ OnStopPlaybackHotkey
    \/ GuiPlayerSignal
    \/ PlayerStepsNoSleep
    \/ P_Wake
    \/ Tick

SpecFile == Init /\ [][NextFile]_vars

\* ---- The hotkey detector alone: raw key notifications of the watched keys,
\* for each of the configurations below.  The queued slots are not run.
MaxKeyNotes == 3

\* XI_RawKeyPress and XI_RawKeyRelease of every watched key; the server
\* repeats the press of a held key, and the watcher starts with an empty set
\* whatever is held, so every notification is possible at any time.
KeyNotes == [press : BOOLEAN, code : WatchedKeys]

\* Saved configurations: combos of up to three distinct keys, as the capture
\* dialog stores them, in either order; start-playback may be unbound.
KeyConfigs ==
    [startRecording : {<<37, 38>>, <<38, 37>>},
     startPlayback : {<<>>, <<37>>},
     stopPlayback : {<<50>>, <<50, 38, 37>>}]

InitKeysOnly ==
    InitCtl /\ InitRecorder /\ InitPlayer /\ layout = 1 /\ InitKeys(KeyConfigs) /\ InitFiles(TRUE) /\ InitDialog /\ InitStopWatcher

RawKey == Len(k_raw) < MaxKeyNotes /\ W_KeyEvent(KeyNotes)

NextKeys ==
    \/ W_OpenFail
    \/ W_OpenOk
    \/ RawKey
    \/ GuiDownSetChanged

SpecKeys == InitKeysOnly /\ [][NextKeys]_vars

\* ---- Macro files: a file of any content is found at the path, or the log of
\* a finished capture is saved there; then Save and Load are used.
\* Records a file can hold: the three known types, a key record whose code is
\* 38.5, an unknown type, a fractional coordinate and timestamp, and a record
\* with no fields but its type.
RecqRecords ==
    {[t |-> 0, type |-> "mm", x |-> 6, y |-> 2],
     [t |-> 41, type |-> "mb", x |-> 0, y |-> 0, btn |-> 2, down |-> TRUE],
     [t |-> 40, type |-> "key", code |-> 76, down |-> TRUE],
     [t |-> 40, type |-> "key", code |-> 77, down |-> FALSE],
     [t |-> 10, type |-> "wheel", x |-> 6, y |-> 2],
     [t |-> 0, type |-> "mm", x |-> 3, y |-> 2],
     [type |-> "mb"]}

RecordLists == UNION {[1..m -> RecqRecords] : m \in 0..MaxLen}

\* Files written by this or another program: wrapped (with or without the
\* format marker), legacy, or not a JSON object or array at all.
RecqFiles ==
    {WrappedFile(fmt, recs) : fmt \in {"recq-v1", ""}, recs \in RecordLists}
    \cup {BareFile(recs) : recs \in RecordLists}
    \cup {[kind |-> "invalid", format |-> "", events |-> <<>>]}

\* Logs of a finished capture on layout 1.
CapturedEvents ==
    {MouseMoveAt(1, 0, <<3, 1>>), MouseButtonAt(1, 20, <<3, 1>>, 1, TRUE),
     MouseButtonAt(1, 20, <<0, 0>>, 8, FALSE), KeyAt(20, 38, TRUE)}
CapturedLogs == LogsOver(CapturedEvents, MaxLen)

\* The controller at start, or after a capture that recorded one of the logs.
InitRecq ==
    /\ activeRecorder = "nullptr" /\ activePlayer = "nullptr"
    /\ \/ recorded = <<>> /\ status = "Ready." /\ btnPlayEnabled = FALSE
          /\ btnSaveEnabled = FALSE
       \/ recorded \in CapturedLogs /\ status = "Recorded %1 events"
          /\ btnPlayEnabled = TRUE /\ btnSaveEnabled = TRUE
    /\ btnRecordText = "Record" /\ btnRecordEnabled = TRUE /\ btnPlayText = "Play"
    /\ liveRecorders = 0 /\ livePlayers = 0
    /\ InitRecorder /\ InitPlayer /\ layout = 1 /\ InitKeys({BoundConfig})
    /\ InitFiles(TRUE) /\ InitDialog /\ InitStopWatcher

\* Another program leaves a file at the path before the controller uses it.
PutFile ==
    /\ disk = NoFile
    /\ disk' \in RecqFiles
    /\ UNCHANGED <<lastDir, cfgFile, cfgWriteFailed>>
    /\ UNCHANGED <<ctlVars, recVars, recObs, playVars, playObs, envVars, stopVars, keyVars, dlgVars>>

SaveMacro == Save({"macros"}, {TRUE})
LoadMacro == Load({loadRecq(disk)}, {"macros"}, {TRUE})

NextRecq ==
    \/ PutFile
    \/ SaveMacro
    \/ LoadMacro

SpecRecq == InitRecq /\ [][NextRecq]_vars

\* ---- The combo-capture dialog and the Clear entries, from the default
\* configuration with no configuration file; the configuration file can be
\* written.  MaxDlgKeys bounds the key presses notified to all dialogs.
MaxDlgKeys == 4

\* Keycodes pressed in the dialog: Control_L, a, Shift_L, Alt_L.
DlgKeys == {37, 38, 50, 64}

\* The keycodes that occur in the stored combos, in the dialog's sequence or
\* among the notifications of the open dialog.
KnownKeys ==
    UNION {KeySet(config[field]) : field \in ComboFields}
    \cup KeySet(seq) \cup KeySet(cw_chan) \cup KeySet(d_notes)

\* The dialog only tests keycodes for equality, so a key that occurs nowhere
\* is represented by the lowest such keycode.
PressableKeys ==
    KnownKeys \cup {c \in DlgKeys \ KnownKeys : \A o \in DlgKeys \ KnownKeys : c <= o}

InitConfig ==
    /\ InitCtl /\ InitRecorder /\ InitPlayer /\ layout = 1
    /\ InitKeys({DefaultConfig}) /\ InitFiles(FALSE) /\ InitDialog /\ InitStopWatcher

OpenDialog == \E field \in ComboFields : OpenCaptureDialog(field)
KeyPressed == d_count < MaxDlgKeys /\ CW_KeyPress(PressableKeys)
ClearAny == \E field \in ComboFields : ClearCombo(field, {TRUE})

NextDialog ==
    \/ OpenDialog
    \/ CW_OpenFail
    \/ CW_OpenOk
    \/ KeyPressed
    \/ CW_Exit
    \/ DlgCapturedKey
    \/ DlgReset
    \/ DlgTimeout
    \/ DlgTick
    \/ DlgCancel
    \/ DlgSave({TRUE})
    \/ DlgStop
    \/ DlgJoin
    \/ ClearAny

SpecDialog == InitConfig /\ [][NextDialog]_vars

\* ---- Every operation that changes the configuration: binding through the
\* dialog, the Clear entries, and the directory changes of Load and Save;
\* the configuration file may or may not be writable at each saveConfig().
\* One key is pressed in the dialogs and time does not pass.
MaxCfgKeys == 1

BindKeyPressed == d_count < MaxCfgKeys /\ CW_KeyPress({37})
ClearAnyCombo == \E field \in ComboFields : ClearCombo(field, BOOLEAN)

\* Load and Save of a one-event macro in other directories, while no dialog
\* is open (the dialog is modal).
LoadElsewhere == dlgpc = "closed" /\ Load({<<KeyAt(0, 38, TRUE)>>}, {"macros"}, BOOLEAN)
SaveElsewhere == dlgpc = "closed" /\ Save({"saved"}, BOOLEAN)

NextConfig ==
    \/ OpenDialog
    \/ CW_OpenFail
    \/ CW_OpenOk
    \/ BindKeyPressed
    \/ CW_Exit
    \/ DlgCapturedKey
    \/ DlgCancel
    \/ DlgSave(BOOLEAN)
    \/ DlgStop
    \/ DlgJoin
    \/ ClearAnyCombo
    \/ LoadElsewhere
    \/ SaveElsewhere

SpecConfig == InitConfig /\ [][NextConfig]_vars

\* ---- Playback of captured and of saved-and-loaded mouse logs while the
\* monitor layout changes.  The moves are captured under either layout at
\* the two pointer positions: on A, on B at offset (1, 1), on B at its origin,
\* and outside every monitor; the button events at the second position.
MonEvents ==
    UNION {{MouseMoveAt(lay, 0, pos) : pos \in Points}
           \cup {MouseButtonAt(lay, 0, <<3, 1>>, 1, isPress) : isPress \in BOOLEAN} :
           lay \in 1..Len(Layouts)}
\* The recorder skips a motion that leaves the pointer where the last recorded
\* move put it, so a captured log never repeats the position of its last move.
NoRepeatedMove(l) ==
    \A a, b \in 1..Len(l) :
        (/\ a < b /\ l[a].type = "MouseMove" /\ l[b].type = "MouseMove"
         /\ \A m \in (a + 1)..(b - 1) : l[m].type # "MouseMove")
        => <<l[a].x, l[a].y>> # <<l[b].x, l[b].y>>
MonLogs == {l \in LogsOver(MonEvents, MaxLen) : NoRepeatedMove(l)}

\* The controller after a capture that recorded one of the logs.
InitMon ==
    /\ activeRecorder = "nullptr" /\ activePlayer = "nullptr"
    /\ recorded \in MonLogs /\ status = "Recorded %1 events"
    /\ btnRecordText = "Record" /\ btnRecordEnabled = TRUE
    /\ btnPlayText = "Play" /\ btnPlayEnabled = TRUE /\ btnSaveEnabled = TRUE
    /\ liveRecorders = 0 /\ livePlayers = 0
    /\ InitRecorder /\ InitPlayer /\ layout = 1 /\ InitKeys({BoundConfig})
    /\ InitFiles(TRUE) /\ InitDialog /\ InitStopWatcher

\* An output is plugged in, unplugged or moved: XRRGetScreenResourcesCurrent
\* answers with another layout from now on.
LayoutChange ==
    /\ \E lay \in 1..Len(Layouts) : lay # layout /\ layout' = lay
    /\ UNCHANGED <<ctlVars, recVars, recObs, playVars, playObs, keyVars, fileVars, dlgVars,
                   stopVars>>

\* One playback of the log at a time (every event is stamped 0, so run()
\* never waits for an event); the log is saved and loaded back while
\* no playback is active.
PlayOnce == activePlayer = "nullptr" /\ ClickPlay({10}, {1})
SaveIdle == activePlayer = "nullptr" /\ disk = NoFile /\ SaveMacro
LoadIdle == activePlayer = "nullptr" /\ disk # NoFile /\ LoadMacro

NextMon ==
    \/ PlayOnce
    \/ SaveIdle
    \/ LoadIdle
    \/ LayoutChange
    \/ GuiPlayerSignal
    \/ PlayerStepsNoSleep
    \/ P_AutoRelease
    \/ P_TapDone
    \/ Tick

SpecMon == InitMon /\ [][NextMon]_vars

\* ---- The hotkey detector over configurations whose slots may be unbound or
\* bound to the same keys, as the capture dialog lets the user store them.
SlotConfigs ==
    [startRecording : {<<>>, <<37>>},
     startPlayback : {<<>>, <<37>>, <<37, 38>>},
     stopPlayback : {<<>>, <<37>>, <<38, 37>>}]

InitSlots ==
    InitCtl /\ InitRecorder /\ InitPlayer /\ layout = 1 /\ InitKeys(SlotConfigs)
    /\ InitFiles(TRUE) /\ InitDialog /\ InitStopWatcher

SpecSlots == InitSlots /\ [][NextKeys]_vars

\* ---- The Ctrl-stop controller (src/BiggerTask.cpp): one PlayerThread and one
\* StopWatcher live as long as the window; Play starts both, and the watcher
\* is stopped and waited for on the GUI thread by the Stop click, by the
\* handler of the player's final status and by the destructor.  The player's
\* run() is the one modelled above; the log is one key press stamped 0.
\* QThread::isRunning(): from start() until run() has returned.
PlayerIsRunning == ppc \notin {"none", "returned"}
WatcherIsRunning == swpc \notin {"none", "returned"}

\* The states of the GUI thread in which it is blocked in stopWatcher->wait().
GuiWaits == {"waitStopClick", "waitStatus", "waitClose"}

\* The window after Load of a one-event file.
InitCtrlStop ==
    /\ activeRecorder = "nullptr" /\ activePlayer = "nullptr"
    /\ recorded = <<KeyAt(0, 38, TRUE)>> /\ status = "Loaded %1 events"
    /\ btnRecordText = "Record" /\ btnRecordEnabled = TRUE
    /\ btnPlayText = "Play" /\ btnPlayEnabled = TRUE /\ btnSaveEnabled = TRUE
    /\ liveRecorders = 0 /\ livePlayers = 0
    /\ InitRecorder /\ InitPlayer /\ layout = 1 /\ InitKeys({BoundConfig})
    /\ InitFiles(TRUE) /\ InitDialog /\ InitStopWatcher

\* StopWatcher::run(): running = true; XOpenDisplay or XQueryExtension fails:
\* return.
SW_OpenFail ==
    /\ swpc = "started"
    /\ sw_running' = TRUE
    /\ swpc' = "returned"
    /\ UNCHANGED gui
    /\ UNCHANGED <<ctlVars, recVars, recObs, playVars, playObs, envVars, keyVars, fileVars,
                   dlgVars>>

\* StopWatcher::run(): running = true; the display opened and XI_RawKeyPress
\* is selected.
SW_OpenOk ==
    /\ swpc = "started"
    /\ sw_running' = TRUE
    /\ swpc' = "loop"
    /\ UNCHANGED gui
    /\ UNCHANGED <<ctlVars, recVars, recObs, playVars, playObs, envVars, keyVars, fileVars,
                   dlgVars>>

\* while (running): a press of Left or Right Ctrl is read: player->stop();
\* running = false.  (Any other notification, and the 10 ms sleep when none
\* is pending, change nothing.)
SW_CtrlKey ==
    /\ swpc = "loop" /\ sw_running
    /\ StopPlayer
    /\ sw_running' = FALSE
    /\ UNCHANGED <<swpc, gui>>
    /\ UNCHANGED <<ctlVars, recVars, recObs, envVars, keyVars, fileVars, dlgVars>>

\* while (running) ends: XCloseDisplay, run() returns.
SW_Exit ==
    /\ swpc = "loop" /\ ~sw_running
    /\ swpc' = "returned"
    /\ UNCHANGED <<sw_running, gui>>
    /\ UNCHANGED <<ctlVars, recVars, recObs, playVars, playObs, envVars, keyVars, fileVars,
                   dlgVars>>

\* The Play/Stop button.  The player is not running: it is given the log and
\* started, and the watcher is started unless it is still running.  The
\* player is running: player->stop(); stopWatcher->stop(); and the GUI thread
\* enters stopWatcher->wait().
CtrlPlayClicked(sps, lps) ==
    /\ gui = "idle"
    /\ btnPlayEnabled
    /\ IF ~PlayerIsRunning
       THEN /\ recorded # <<>>
            /\ \E sp \in sps, lp \in lps : speed' = sp /\ loops' = lp
            /\ p_events' = recorded
            /\ ppc' = "started"
            /\ k' = 0 /\ i' = 0 /\ p_elapsed' = 0 /\ p_sleep' = 0
            /\ p_trace' = <<>> /\ pressedDown' = {} /\ p_stopReq' = FALSE
            /\ p_stopInWait' = FALSE /\ sinceStop' = 0 /\ dispatched' = 0
            /\ swpc' = IF WatcherIsRunning THEN swpc ELSE "started"
            /\ btnPlayText' = "Stop"
            /\ btnRecordEnabled' = FALSE
            /\ UNCHANGED <<p_running, p_chan, playIgnored, sw_running, gui>>
       ELSE /\ StopPlayer
            /\ sw_running' = FALSE
            /\ gui' = "waitStopClick"
            /\ UNCHANGED <<swpc, btnPlayText, btnRecordEnabled>>
    /\ UNCHANGED <<activeRecorder, activePlayer, recorded, status, btnRecordText,
                   btnPlayEnabled, btnSaveEnabled, liveRecorders, livePlayers>>
    /\ UNCHANGED <<recVars, recObs, envVars, keyVars, fileVars, dlgVars>>

\* The handler of the player's status: the label is set; for a text that
\* contains "finished" or "Stopped" the button is reset, stopWatcher->stop()
\* is called and the GUI thread enters stopWatcher->wait().
CtrlPlayerStatus ==
    /\ gui = "idle"
    /\ p_chan # <<>>
    /\ status' = Head(p_chan).text
    /\ p_chan' = Tail(p_chan)
    /\ IF ContainsFinishedOrStopped(Head(p_chan).text)
       THEN /\ btnPlayText' = "Play"
            /\ sw_running' = FALSE
            /\ gui' = "waitStatus"
       ELSE UNCHANGED <<btnPlayText, sw_running, gui>>
    /\ UNCHANGED <<activeRecorder, activePlayer, recorded, btnRecordText, btnRecordEnabled,
                   btnPlayEnabled, btnSaveEnabled, liveRecorders, livePlayers>>
    /\ UNCHANGED <<ppc, p_running, p_events, speed, loops, k, i, p_elapsed, p_sleep, swpc>>
    /\ UNCHANGED <<playObs, recVars, recObs, envVars, keyVars, fileVars, dlgVars>>

\* The window is closed: ~MainWindow() stops the running player, calls
\* stopWatcher->stop() and enters stopWatcher->wait().
CtrlClose ==
    /\ gui = "idle"
    /\ IF PlayerIsRunning
       THEN StopPlayer
       ELSE UNCHANGED <<playVars, playObs>>
    /\ sw_running' = FALSE
    /\ gui' = "waitClose"
    /\ UNCHANGED swpc
    /\ UNCHANGED <<ctlVars, recVars, recObs, envVars, keyVars, fileVars, dlgVars>>

\* stopWatcher->wait() returns once the watcher's run() has returned (at once
\* when the watcher was never started): the handler goes on, and the
\* destructor goes on to wait for the recorder and the player.
CtrlWaitReturns ==
    /\ gui \in GuiWaits
    /\ ~WatcherIsRunning
    /\ gui' = IF gui = "waitClose" THEN "closed" ELSE "idle"
    /\ btnPlayText' = IF gui = "waitStopClick" THEN "Play" ELSE btnPlayText
    /\ btnRecordEnabled' = IF gui = "waitClose" THEN btnRecordEnabled ELSE TRUE
    /\ UNCHANGED <<swpc, sw_running>>
    /\ UNCHANGED <<activeRecorder, activePlayer, recorded, status, btnRecordText,
                   btnPlayEnabled, btnSaveEnabled, liveRecorders, livePlayers>>
    /\ UNCHANGED <<recVars, recObs, playVars, playObs, envVars, keyVars, fileVars, dlgVars>>

\* Play is clicked once the queued statuses of the last playback are handled.
CtrlPlayOrStop == (PlayerIsRunning \/ p_chan = <<>>) /\ CtrlPlayClicked({10}, {1, INT_MAX})

NextCtrlStop ==
    \/ CtrlPlayOrStop
    \/ CtrlPlayerStatus
    \/ CtrlClose
    \/ CtrlWaitReturns
    \/ SW_OpenFail
    \/ SW_OpenOk
    \/ SW_CtrlKey
    \/ SW_Exit
    \/ PlayerStepsNoSleep

SpecCtrlStop == InitCtrlStop /\ [][NextCtrlStop]_vars

\* Both threads and the GUI thread keep running; the user and the keyboard
\* owe nothing.
FairnessCtrlStop ==
    /\ WF_vars(SW_OpenFail \/ SW_OpenOk)
    /\ WF_vars(SW_Exit)
    /\ WF_vars(PlayerStepsNoSleep)
    /\ WF_vars(CtrlPlayerStatus)
    /\ WF_vars(CtrlWaitReturns)

FairSpecCtrlStop == SpecCtrlStop /\ FairnessCtrlStop

\* ===================================================================== claims
\* ------------------------------------------------ controller and its workers
\* C1: capture and playback are never active at the same time: at no moment do
\* a recorder and a player both exist.
C1_CaptureAndPlaybackExclusive ==
    ~(activeRecorder # "nullptr" /\ activePlayer # "nullptr")

\* C2: at most one recorder and at most one player exist at any time; a
\* start-playback request received while a player is active changes nothing of
\* the controller or of that player, and a record toggle received while a
\* recorder is active creates no recorder.
C2_AtMostOneInstance ==
    [][ /\ liveRecorders' <= 1
        /\ livePlayers' <= 1
        /\ (activePlayer # "nullptr" /\ HotkeyPlay(CtlSpeeds, CtlLoops))
              => UNCHANGED <<ctlVars, playVars>>
        /\ (activePlayer # "nullptr" /\ activePlayer' # "nullptr")
              => UNCHANGED <<p_events, speed, loops, livePlayers>>
        /\ (activeRecorder # "nullptr" /\ HotkeyRecord)
              => (liveRecorders' = liveRecorders /\ activeRecorder' = activeRecorder)
      ]_vars

\* A start-playback request has been ignored by a player that is inside its
\* loops, and a record toggle has reached an active recorder.
C2_Witness ==
    /\ activePlayer # "nullptr" /\ playIgnored /\ InLoop /\ livePlayers = 1
    /\ activeRecorder # "nullptr" /\ r_stopReq /\ liveRecorders = 1

\* C3: a stop-playback request made at any time after a playback was started
\* is never lost: once it has been made, the player begins no pass over the log.
C3_StopPlaybackNeverLost ==
    [][p_stopReq => ~(ppc = "loopcheck" /\ ppc' = "eventcheck")]_vars

\* C4: a stop-capture request ends the capture: a recorder that has been asked
\* to stop and is in its capture loop eventually leaves it and emits its final
\* signal, and the controller returns to idle (no recorder, Play enabled).
C4_StopCaptureEndsCapture ==
    (r_stopReq /\ rpc \in {"loop", "sleep"})
        ~> (activeRecorder = "nullptr" /\ btnPlayEnabled)

\* ------------------------------------------------------------- one playback
\* This step hands at least one event of the log to the backend.
LogDispatched ==
    /\ Len(p_trace') > Len(p_trace)
    /\ \E n \in (Len(p_trace) + 1)..Len(p_trace') : p_trace'[n].src = "log"

\* C5: once a stop has been requested of a player (here: while it was blocked
\* in its wait), no later step dispatches an event of the log.
C5_NoDispatchAfterCancel ==
    [][(p_stopReq /\ p_stopInWait) => ~LogDispatched]_vars

\* C6: a player blocked in its pre-dispatch wait stays blocked no longer than
\* the idle-poll granularity after a stop request, whatever the gap it waits.
C6_WaitEndsWithinGranularity ==
    (ppc = "wait" /\ p_stopReq) => sinceStop <= IdleSleepMs

\* C7: when a playback has ended, however it ended, no button the player
\* pressed is left down.
C7_NoButtonLeftDown ==
    (ppc \in {"returned", "none"}) => pressedDown = {}

\* The statuses of a run() that returns before its loops.
EarlyReturnTexts == {"No events to play", "Failed to open X display"}

\* C8: a playback that opened its backend connection ends, cancelled or not,
\* with a release of each button SafetyFirstButton..SafetyLastButton, in that
\* order, immediately followed by "Playback finished." as its last output; so
\* the releases come after the last dispatched log event and before the status.
C8_SafetyReleasesThenFinished ==
    /\ \A n \in 1..Len(p_trace) :
          p_trace[n] = Emitted("Playback finished.") =>
             /\ n = Len(p_trace)
             /\ n > SafetyLastButton - SafetyFirstButton + 1
             /\ \A b \in SafetyFirstButton..SafetyLastButton :
                   p_trace[n - (SafetyLastButton - b) - 1] = XButton(b, FALSE, "safety")
    /\ ppc = "returned" =>
          /\ p_trace # <<>>
          /\ p_trace[Len(p_trace)].call = "status"
          /\ p_trace[Len(p_trace)].text \notin EarlyReturnTexts
                => p_trace[Len(p_trace)] = Emitted("Playback finished.")

\* A cancelled playback that had dispatched an event has ended with the
\* releases and the status.
C8_Witness ==
    /\ ppc = "returned" /\ p_stopReq
    /\ \E m \in 1..Len(p_trace) : p_trace[m].src = "log"
    /\ p_trace[Len(p_trace)] = Emitted("Playback finished.")

\* -------------------------------------------------------------- one capture
\* A capture has been stopped and run() has returned with its finished log.
CaptureFinished == rpc = "returned" /\ r_stop.set

\* The button ids of a log and, in log order, the events of one id.
ButtonIds(log) ==
    {log[n].button : n \in {m \in 1..Len(log) : log[m].type = "MouseButton"}}
ButtonEventsOf(log, b) ==
    LET IsB(e) == e.type = "MouseButton" /\ e.button = b
    IN  SelectSeq(log, IsB)

\* Id b occurs an even number of times, and every release of b has more
\* presses than releases of b before it.
PairedFor(log, b) ==
    LET s == ButtonEventsOf(log, b)
    IN  /\ Len(s) % 2 = 0
        /\ \A n \in 1..Len(s) :
              ~s[n].pressed =>
                 Cardinality({m \in 1..(n - 1) : s[m].pressed})
                    > Cardinality({m \in 1..(n - 1) : ~s[m].pressed})
Paired(log) == \A b \in ButtonIds(log) : PairedFor(log, b)

\* The raw button notifications of one id, and the raw sequences in which each
\* id alternates press, release, press, ..., its last press possibly unmatched.
RawButtonsOf(raw, b) ==
    LET IsB(ev) == ev.evtype \in {"XI_RawButtonPress", "XI_RawButtonRelease"} /\ ev.detail = b
    IN  SelectSeq(raw, IsB)
AlternatingRaw(raw) ==
    \A b \in Buttons :
        LET s == RawButtonsOf(raw, b)
        IN  \A n \in 1..Len(s) : (s[n].evtype = "XI_RawButtonPress") <=> (n % 2 = 1)

\* C9 (as stated): for every sequence of raw button notifications, the finished
\* log holds every button id an even number of times and each release is
\* preceded by a matching unreleased press of the same id.
C9_EveryRawSequencePaired ==
    CaptureFinished => Paired(r_events)

\* C9 (amended): the same, for the raw sequences in which every button id
\* alternates press and release starting with a press.
C9_AlternatingRawSequencePaired ==
    (CaptureFinished /\ AlternatingRaw(r_raw)) => Paired(r_events)

\* A capture of press, release, press of one button, stopped with it held.
C9_Witness ==
    /\ CaptureFinished /\ AlternatingRaw(r_raw)
    /\ \E b \in r_stop.held : Len(RawButtonsOf(r_raw, b)) = 3

\* C10: the finished log is the log at stop followed by exactly one release
\* per button held at stop, each stamped with the stop time and the pointer
\* position at stop; and the last event of every button id is a release.
C10_OneSyntheticReleasePerHeldButton ==
    CaptureFinished =>
        LET syn == SubSeq(r_events, r_stop.len + 1, Len(r_events))
        IN  /\ Len(syn) = Cardinality(r_stop.held)
            /\ {syn[j].button : j \in 1..Len(syn)} = r_stop.held
            /\ \A j \in 1..Len(syn) :
                  /\ syn[j].type = "MouseButton" /\ ~syn[j].pressed
                  /\ syn[j].ms_since_start = r_stop.t
                  /\ <<syn[j].x, syn[j].y>> = r_stop.pos
            /\ \A b \in ButtonIds(r_events) :
                  ~ButtonEventsOf(r_events, b)[Len(ButtonEventsOf(r_events, b))].pressed

\* A capture stopped after some time with two buttons held and the pointer
\* away from the origin.
C10_Witness ==
    /\ CaptureFinished
    /\ Cardinality(r_stop.held) = 2 /\ r_stop.t > 0 /\ r_stop.pos # <<0, 0>>

\* C11: within one capture run every notification appends at most one event,
\* of its kind, at the end of the log, and the timestamps of the log are
\* non-negative and non-decreasing, the synthesized releases included.
TimesSorted(log) ==
    \A a \in 1..Len(log) :
        /\ log[a].ms_since_start >= 0
        /\ a < Len(log) => log[a].ms_since_start <= log[a + 1].ms_since_start
IsPrefix(s1, s2) == Len(s1) <= Len(s2) /\ SubSeq(s2, 1, Len(s1)) = s1
KindOf(ev) ==
    CASE ev.evtype = "XI_RawMotion" -> "MouseMove"
      [] ev.evtype \in {"XI_RawButtonPress", "XI_RawButtonRelease"} -> "MouseButton"
      [] OTHER -> "Key"
C11_ArrivalOrderAndMonotonicTime ==
    [][ /\ TimesSorted(r_events')
        /\ (rpc = "loop" /\ rpc' \in {"loop", "returned"}) => IsPrefix(r_events, r_events')
        /\ r_raw' # r_raw =>
              /\ Len(r_events') <= Len(r_events) + 1
              /\ Len(r_events') > Len(r_events) =>
                    r_events'[Len(r_events')].type = KindOf(r_raw'[Len(r_raw')])
      ]_vars

\* A capture of at least two events, the first at 0 ms, stopped later with a
\* button held.
C11_Witness ==
    /\ CaptureFinished /\ r_stop.len >= 2 /\ r_stop.held # {}
    /\ r_events[1].ms_since_start = 0 /\ r_stop.t > 0

\* C13: a MouseMove is appended only for a position that differs from that of
\* the previously recorded MouseMove (last_xy holds it), so no two successive
\* MouseMove events of the log have the same (x, y).
MovesOf(log) ==
    LET IsMove(e) == e.type = "MouseMove"
    IN  SelectSeq(log, IsMove)
MotionNotes(raw) ==
    LET IsMotion(ev) == ev.evtype = "XI_RawMotion"
    IN  SelectSeq(raw, IsMotion)
C13_NoRepeatedMousePosition ==
    LET mv == MovesOf(r_events)
    IN  /\ \A n \in 1..(Len(mv) - 1) : <<mv[n].x, mv[n].y>> # <<mv[n + 1].x, mv[n + 1].y>>
        /\ rpc = "loop" =>
              last_xy = IF mv = <<>> THEN <<-1, -1>> ELSE <<mv[Len(mv)].x, mv[Len(mv)].y>>
        /\ Len(mv) <= Len(MotionNotes(r_raw))

\* Three motion notifications gave one MouseMove: two arrived for an unchanged
\* position.
C13_Witness ==
    /\ Len(MotionNotes(r_raw)) = 3
    /\ Len(MovesOf(r_events)) = 1

\* C14: at speed 1.0 an event with timestamp t is injected no earlier than t ms
\* after the start of its pass.
C14_NeverBeforeSchedule ==
    (ppc = "dispatch" /\ speed = 10) => p_elapsed >= p_events[i + 1].ms_since_start

\* The second event, stamped 20 ms, is about to be injected after a press
\* that was followed by its automatic release.
C14_Witness ==
    /\ ppc = "dispatch" /\ speed = 10 /\ i = 1
    /\ p_events[2].ms_since_start = 20
    /\ \E n \in 1..Len(p_trace) : p_trace[n].src = "auto"

\* C16: the log events handed to the backend in a pass are those of the log in
\* log order, and an uncancelled playback with loop count N over m events
\* ends after N passes and N*m dispatched log events.
RECURSIVE CallsOf(_, _)
CallsOf(evs, lay) ==
    IF evs = <<>> THEN <<>> ELSE DispatchCalls(Head(evs), lay) \o CallsOf(Tail(evs), lay)
LogCallsOf(trace) ==
    LET IsLog(c) == c.src = "log"
    IN  SelectSeq(trace, IsLog)
C16_LoopCountTimesLogLength ==
    /\ ppc = "eventcheck" => LogCallsOf(p_trace) = CallsOf(SubSeq(p_events, 1, i), layout)
    /\ (ppc = "returned" /\ ~p_stopReq /\ loops # INT_MAX
           /\ p_trace[Len(p_trace)] = Emitted("Playback finished.")) =>
          /\ k = loops
          /\ dispatched = loops * Len(p_events)
          /\ LogCallsOf(p_trace) = CallsOf(p_events, layout)

\* An uncancelled playback of two loops over two events has ended.
C16_Witness ==
    /\ ppc = "returned" /\ ~p_stopReq /\ loops = 2 /\ Len(p_events) = 2
    /\ dispatched = 4

\* C17: a playback started with the infinite loop option leaves its loops only
\* after a stop request.
C17_InfiniteUntilStopped ==
    (loops = INT_MAX /\ ppc = "safety") => p_stopReq

\* ------------------------------------------------------ files and schedules
\* C12: after any sequence of load and playback operations the controller's
\* log, and the copy a player replays in log order, are in non-decreasing
\* timestamp order.
TimesNonDecreasing(log) ==
    \A a \in 1..(Len(log) - 1) : log[a].ms_since_start <= log[a + 1].ms_since_start
BeginsWait == ppc = "eventcheck" /\ ppc' = "wait"
OffsetWaitedFor == p_elapsed + p_sleep'

\* C15 (as stated): the scheduled offset of an event is its timestamp divided
\* by the speed (speed is held in tenths).
C15_OffsetIsQuotient ==
    [][BeginsWait => OffsetWaitedFor * speed = p_events[i + 1].ms_since_start * 10]_vars

\* C15 (amended): the scheduled offset is the quotient truncated to whole
\* milliseconds; an event is dispatched without wait only when that offset has
\* passed; doubling the speed halves every offset up to the truncation.
C15_OffsetIsTruncatedQuotient ==
    [][ /\ BeginsWait =>
              /\ OffsetWaitedFor * speed <= p_events[i + 1].ms_since_start * 10
              /\ p_events[i + 1].ms_since_start * 10 < (OffsetWaitedFor + 1) * speed
        /\ (ppc = "eventcheck" /\ ppc' = "dispatch") =>
              (p_elapsed + 1) * speed > p_events[i + 1].ms_since_start * 10
        /\ \A n \in 1..Len(p_events) :
              ScheduledOffset(p_events[n].ms_since_start, 2 * speed)
                 = ScheduledOffset(p_events[n].ms_since_start, speed) \div 2
      ]_vars

\* At speed 2.0 the player waits for an event stamped 5 ms: 2 ms from the
\* start of the pass.
C15_Witness ==
    /\ ppc = "wait" /\ speed = 20 /\ p_events[i + 1].ms_since_start = 5
    /\ p_elapsed = 0 /\ p_sleep = 2

\* ------------------------------------------------------- the hotkey detector
\* The controller handles the next queued notification in this step.
HandlesNote == k_chan # <<>> /\ k_chan' = Tail(k_chan)

\* The slots queued by this step.
NewlyPosted == {posted'[n] : n \in (Len(posted) + 1)..Len(posted')}

Slot == {Slots[n] : n \in 1..Len(Slots)}

\* The number of times a slot was queued.
TimesPosted(slot) == Cardinality({n \in 1..Len(posted) : posted[n] = slot})

C19_ExactSetOnly ==
    [][HandlesNote =>
         \A slot \in NewlyPosted :
             /\ ComboOf(config, slot) # <<>>
             /\ KeySet(ComboOf(config, slot)) = KeySet(Head(k_chan).keys)]_vars

\* Control_L, a and Shift_L were pressed one after the other: the two-key
\* start-recording combo was queued once (not for Control_L alone, not with
\* Shift_L held as well).
C19_Witness ==
    /\ k_chan = <<>>
    /\ downSet = WatchedKeys
    /\ Len(k_raw) = 3
    /\ KeySet(config.startRecording) = {37, 38}
    /\ TimesPosted("onToggleRecord") = 1

\* C20: a slot is queued only for a notification that changed the set of
\* pressed keys: a repeated press of a held key and the release of a key that
\* is not in the set queue nothing.
C20_OnlyOnSetChange ==
    [][HandlesNote => (NewlyPosted # {} => Head(k_chan).changed)]_vars

\* -------------------------------------------------------------- macro files
\* Two logs have the same length and agree, position by position, on
\* timestamp, type, absolute coordinates, button id, press flag and keycode.
SameEvents(a, b) ==
    /\ Len(a) = Len(b)
    /\ \A n \in 1..Len(a) :
          /\ a[n].ms_since_start = b[n].ms_since_start
          /\ a[n].type = b[n].type
          /\ a[n].x = b[n].x /\ a[n].y = b[n].y
          /\ a[n].button = b[n].button
          /\ a[n].pressed = b[n].pressed
          /\ a[n].keycode = b[n].keycode

\* C21: loading the file that save writes for the controller's log yields a
\* log of the same length that agrees with it, position by position, on
\* timestamp, type, absolute coordinates, button id, press flag and keycode;
\* and whenever the file at the path is the one saved from the log, Load
\* leaves such a log.
C21_LoadOfSaveAgrees ==
    /\ [] SameEvents(loadRecq(saveRecq(recorded)), recorded)
    /\ [][(disk = saveRecq(recorded) /\ LoadMacro)
            => SameEvents(recorded', recorded)]_vars

\* A captured log with a monitor name was saved, or the log loaded from a
\* file with a record of unknown type was saved.
C21_Witness ==
    /\ disk = saveRecq(recorded)
    /\ Len(recorded) = MaxLen
    /\ \/ \E n \in 1..Len(recorded) : recorded[n].monitor # ""
       \/ /\ status = "Loaded %1 events"
          /\ recorded[1] = Event("MouseMove", 5, 0, 0, 0, FALSE, 0, "", 0, 0)

\* The same records as a wrapped document and as a bare array.
AsWrapped(doc) == WrappedFile("recq-v1", doc.events)
AsLegacy(doc) == BareFile(doc.events)

\* C22: a bare array of records loads to exactly the log that the wrapped
\* document holding the same records in the same order loads to, and Load
\* of either form leaves that log.
C22_LegacyLoadsAsWrapped ==
    /\ [] (loadRecq(AsLegacy(disk)) = loadRecq(AsWrapped(disk)))
    /\ [][(disk.kind = "array" /\ LoadMacro)
            => recorded' = loadRecq(AsWrapped(disk))]_vars

\* A legacy file with a key record and another record was loaded.
C22_Witness ==
    /\ disk.kind = "array"
    /\ Len(disk.events) = MaxLen
    /\ \E n \in 1..Len(disk.events) : JsonValue(disk.events[n], "type", "") = "key"
    /\ status = "Loaded %1 events"
    /\ recorded = loadRecq(disk)

\* The records of a file whose type is one of mm, mb, key.
KnownRecords(doc) ==
    SelectSeq(doc.events, LAMBDA o : JsonValue(o, "type", "") \in {"mm", "mb", "key"})

\* C23: Load leaves exactly the events of the records whose type is mm, mb or
\* key: a record of another type contributes no event.
C23_UnknownTypeDropped ==
    [][(disk.kind \in {"object", "array"} /\ LoadMacro)
         => recorded' = loadRecq(WrappedFile("recq-v1", KnownRecords(disk)))]_vars

\* --------------------------------------------------------- backend failures
\* C24: once a worker that could not open the input backend has returned and
\* its status has been handled, the controller is idle: it holds no worker of
\* that kind, so that the next start request creates one.
C24_OpenFailureLeavesIdle ==
    /\ (rpc = "returned" /\ r_chan = <<>> /\ status \in RecorderOpenFailures)
          => activeRecorder = "nullptr"
    /\ (ppc = "returned" /\ p_chan = <<>> /\ status = "Failed to open X display")
          => activePlayer = "nullptr"

\* ------------------------------------------------------ the player's own log
\* The same player exists before and after the step.
SamePlayback == activePlayer = "player" /\ activePlayer' = "player"

\* C30: a player is created with a copy of the controller's log; as long as
\* it exists its copy does not change, whatever replaces the controller's
\* log; every log event it dispatches is the next event of that copy; and no
\* step of the player changes the controller's log.
C30_PlaysItsOwnCopy ==
    [][/\ (activePlayer = "nullptr" /\ activePlayer' = "player") => p_events' = recorded
       /\ SamePlayback => p_events' = p_events
       /\ (SamePlayback /\ ppc' # ppc) => recorded' = recorded
       /\ LogDispatched =>
             p_trace' = p_trace \o DispatchCalls(p_events[i + 1], layout)]_vars

\* The controller's log was replaced while the player is about to dispatch an
\* event of its copy.
C30_Witness ==
    /\ activePlayer = "player"
    /\ ppc = "dispatch"
    /\ recorded # p_events

\* ---------------------------------------------------- combo-capture dialog
\* A sequence of at most 3 pairwise distinct keycodes.
UpTo3Distinct(v) ==
    /\ Len(v) <= 3
    /\ \A a, b \in 1..Len(v) : a # b => v[a] # v[b]

\* C25: from the default configuration, every stored combo and the dialog's
\* in-progress sequence always hold at most 3 pairwise distinct keycodes, and
\* while the dialog stays open a sequence of 3 keycodes is changed by Reset
\* only.
C25_AtMostThreeDistinctKeys ==
    /\ [] (/\ \A field \in ComboFields : UpTo3Distinct(config[field])
           /\ UpTo3Distinct(seq))
    /\ [][(dlgpc = "exec" /\ dlgpc' = "exec" /\ Len(seq) = 3 /\ seq' # seq)
            => (seq' = <<>> /\ cw_chan' = cw_chan)]_vars

\* The sequence holds 3 keycodes and the press of a 4th key has been handled.
C25_Witness ==
    /\ dlgpc = "exec"
    /\ Len(seq) = 3
    /\ cw_chan = <<>>
    /\ \E n \in 1..Len(d_notes) : d_notes[n] \notin KeySet(seq)

\* The dialog commits in this step (dlg.accept()).
Commits == dlgpc = "exec" /\ dlgpc' = "join" /\ dlgResult' = "Accepted"

\* C26: every keycode of the sequence the dialog commits was notified as a
\* key press while that dialog was open.
C26_CommittedKeysWerePressed ==
    [][Commits => KeySet(config'[dlgTarget]) \subseteq KeySet(d_notes)]_vars

TimeoutStopsListener == cwpc = "loop" /\ cw_running /\ ~cw_running' /\ dlgpc' = "exec"

\* C28: the timer stops the listener only in a dialog for start-playback or
\* stop-playback, only when 1 second has passed since the last accepted
\* keycode, and without committing anything.
C28_TimeoutOnlyAfterAcceptedKey ==
    [][TimeoutStopsListener =>
         /\ dlgTarget # "startRecording"
         /\ sinceAccept >= ComboTimeoutMs
         /\ config' = config /\ cfgFile' = cfgFile]_vars

\* -------------------------------------------------------- the configuration
\* C29: after every operation that changes the configuration, the
\* configuration file yields the in-memory configuration.
C29_PersistedEqualsInMemory ==
    LoadedConfig(cfgFile) = <<config, lastDir>>

\* ------------------------------------------------- monitors at dispatch time
\* run() dispatches the event at index i in this step; the XTest calls it makes.
DispatchesEvent == ppc = "dispatch" /\ p_trace' # p_trace
DispatchedEvent == p_events[i + 1]
NewCalls == SubSeq(p_trace', Len(p_trace) + 1, Len(p_trace'))
IsMouse(e) == e.type \in {"MouseMove", "MouseButton"}

\* The connected outputs of the current layout that carry the event's monitor
\* name, and the position the claims give the event.
OutputsNamed(e) == {n \in 1..Len(Layouts[layout]) : Layouts[layout][n].name = e.monitor}
MonitorResolves(e) == e.monitor # "" /\ OutputsNamed(e) # {}
TargetPosition(e) ==
    IF MonitorResolves(e)
    THEN LET m == Layouts[layout][CHOOSE n \in OutputsNamed(e) : TRUE]
         IN  <<m.x + e.relx, m.y + e.rely>>
    ELSE <<e.x, e.y>>

\* C31: when a mouse event is dispatched, every motion injected for it goes to
\* the current origin of the event's monitor plus the recorded offset if the
\* monitor name is non-empty and names a connected monitor at that moment, and
\* to the recorded absolute position otherwise; a MouseMove injects exactly
\* one motion, and the playback goes on with the next step of the pass.
C31_TargetFollowsCurrentLayout ==
    [][(DispatchesEvent /\ IsMouse(DispatchedEvent)) =>
         /\ \A n \in 1..Len(NewCalls) :
               NewCalls[n].call = "motion"
                   => <<NewCalls[n].x, NewCalls[n].y>> = TargetPosition(DispatchedEvent)
         /\ DispatchedEvent.type = "MouseMove"
               => Len(NewCalls) = 1 /\ NewCalls[1].call = "motion"
         /\ ppc' \in {"eventcheck", "tap", "autorelease"}
         /\ p_chan' = p_chan]_vars

\* An event captured on monitor B at offset (1, 1), absolute (3, 1), was
\* replayed at (1, 1) after B moved to the origin, and an event captured on
\* monitor A was replayed while A was gone.
C31_Witness ==
    /\ \E n \in 1..Len(p_trace) :
          p_trace[n].call = "motion" /\ p_trace[n].x = 1 /\ p_trace[n].y = 1
    /\ layout = 2
    /\ \E n \in 1..Len(p_events) : p_events[n].monitor = "A" /\ n <= i

\* C32: a MouseButton event whose monitor resolves at dispatch time is
\* injected as a motion to the resolved position followed at once by the
\* button event with the recorded button id and press/release flag; one whose
\* monitor does not resolve is injected as the button event alone.
C32_MotionBeforeResolvedButton ==
    [][(DispatchesEvent /\ DispatchedEvent.type = "MouseButton") =>
         NewCalls =
            (IF MonitorResolves(DispatchedEvent)
             THEN <<XMotion(TargetPosition(DispatchedEvent)[1],
                            TargetPosition(DispatchedEvent)[2], "log")>>
             ELSE <<>>)
            \o <<XButton(DispatchedEvent.button, DispatchedEvent.pressed, "log")>>]_vars

\* A button event was injected behind a motion to a position that is not the
\* recorded one, and another button event with no motion before it.
C32_Witness ==
    /\ Len(p_trace) >= 3
    /\ p_trace[1].call = "motion" /\ p_trace[1].x = 1
    /\ p_trace[2].call = "button" /\ p_trace[2].src = "log"
    /\ \E n \in 3..Len(p_trace) :
          /\ p_trace[n].call = "button" /\ p_trace[n].src = "log"
          /\ p_trace[n - 1].call # "motion"

\* The playback replays a log that was loaded from the file on disk.
PlaysLoadedLog == disk # NoFile /\ p_events = loadRecq(disk)

\* The positions the pointer can be at after the calls of trace: where the
\* last injected motion put it, or wherever it was left when none was
\* injected.
PointerAfter(trace) ==
    LET motions == {n \in 1..Len(trace) : trace[n].call = "motion"}
    IN  IF motions = {} THEN Points
        ELSE LET last == CHOOSE n \in motions : \A m \in motions : m <= n
             IN  {<<trace[last].x, trace[last].y>>}

\* C34 (as stated): every event of a loaded log has an empty monitor name, and
\* the playback of a loaded log injects each mouse event at its recorded
\* absolute coordinates.
C34_LoadedLogAtRecordedPosition ==
    /\ [][LoadMacro => \A n \in 1..Len(recorded') : recorded'[n].monitor = ""]_vars
    /\ [][(DispatchesEvent /\ PlaysLoadedLog /\ IsMouse(DispatchedEvent)) =>
            PointerAfter(p_trace') = {<<DispatchedEvent.x, DispatchedEvent.y>>}]_vars

\* C34 (amended): every event of a loaded log has an empty monitor name, and
\* under every monitor layout the playback of a loaded log injects a MouseMove
\* as one motion to its recorded absolute coordinates and a MouseButton as the
\* button event alone, with no motion before it.
C34_LoadedLogIgnoresLayout ==
    /\ [][LoadMacro => \A n \in 1..Len(recorded') : recorded'[n].monitor = ""]_vars
    /\ [][(DispatchesEvent /\ PlaysLoadedLog /\ IsMouse(DispatchedEvent)) =>
            NewCalls =
               IF DispatchedEvent.type = "MouseMove"
               THEN <<XMotion(DispatchedEvent.x, DispatchedEvent.y, "log")>>
               ELSE <<XButton(DispatchedEvent.button, DispatchedEvent.pressed, "log")>>]_vars

\* A log captured on monitor B at offset (1, 1) was saved and loaded, and its
\* move and its button press were replayed after B had moved to the origin:
\* the motion went to the recorded (3, 1) and the press had no motion of its
\* own.
C34_Witness ==
    /\ PlaysLoadedLog
    /\ recorded = p_events
    /\ layout = 2
    /\ Len(p_trace) >= 2
    /\ p_trace[1].call = "motion" /\ p_trace[1].x = 3 /\ p_trace[1].y = 1
    /\ p_trace[2].call = "button" /\ p_trace[2].down

\* ------------------------------------------------------- one slot per change
\* C33: handling a notification that changed the set of pressed keys queues
\* at most one slot, and never a slot whose combo is empty, whatever the three
\* combos are.
C33_AtMostOneSlotPerChange ==
    [][(HandlesNote /\ Head(k_chan).changed) =>
         /\ Len(posted') <= Len(posted) + 1
         /\ \A slot \in NewlyPosted : ComboOf(config, slot) # <<>>]_vars

\* ------------------------------------------------------- keys after playback
\* Every key press of the log is followed, later in the log, by a release of
\* the same keycode.
EveryPressReleased(evs) ==
    \A a \in 1..Len(evs) :
        (evs[a].type = "Key" /\ evs[a].pressed)
        => \E b \in (a + 1)..Len(evs) :
              evs[b].type = "Key" /\ ~evs[b].pressed /\ evs[b].keycode = evs[a].keycode

\* The keycodes whose last injected key event in trace is a press.
KeysDownAfter(trace) ==
    {code \in Keycodes :
        LET calls == {n \in 1..Len(trace) : trace[n].call = "key" /\ trace[n].detail = code}
        IN  /\ calls # {}
            /\ trace[CHOOSE n \in calls : \A m \in calls : m <= n].down}

\* C35: once run() has returned from the playback of a log in which every key
\* press is followed by its release, no key pressed by the playback is down.
C35_NoKeyLeftDown ==
    (ppc = "returned" /\ EveryPressReleased(p_events)) => KeysDownAfter(p_trace) = {}

\* --------------------------------------------------------- Ctrl-stop watcher
\* C36: whenever the GUI thread has called stopWatcher->stop() and is in
\* stopWatcher->wait(), the wait eventually returns.
C36_WatcherWaitReturns ==
    (gui \in GuiWaits) ~> (gui \notin GuiWaits)

=============================================================================
